---- MODULE Spec2Model ----
(***************************************************************************)
(* Model of the calories-tracker API (src/src/index.ts, utils.ts,          *)
(* websocket_handler.ts).                                                  *)
(*   Spec         the KV store, the POST /intake read-merge-write cycle,   *)
(*                DELETE /intake/:userName/:date and POST /resetkv, each   *)
(*                handler split at its awaits on the store                 *)
(*   SpecExtract  the extraction of the JSON text from the AI's response   *)
(*   SpecStream   the reader loop of a streamed AI response                *)
(*   SpecViews    GET /summary/:userName and GET /daily_intake/:userName   *)
(*   SpecRelay    the WebSocket relay and its presence keys                *)
(*   SpecRelayFair  the relay, with every awaited store call settling      *)
(*   SpecSummary  the recomputed summary of a day in binary64 arithmetic   *)
(*   SpecBoard    GET /leaderboard                                         *)
(***************************************************************************)
EXTENDS Integers, Sequences, FiniteSets, TLC

\* ------------------------------------------------------------------ bounds

\* Largest number of requests started in one run.
MaxRequests == 2

\* ------------------------------------------------- decimal strings, numbers

\* A numeric string is a sequence of one-character strings; a number is a
\* count of tenths, or NaN.
NaN == [nan |-> TRUE, v |-> 0]

Num(n) == [nan |-> FALSE, v |-> n]

IsDigit(c) == c \in {"0", "1", "2", "3", "4", "5", "6", "7", "8", "9"}

DigitVal(c) ==
    CASE c = "0" -> 0 [] c = "1" -> 1 [] c = "2" -> 2 [] c = "3" -> 3
      [] c = "4" -> 4 [] c = "5" -> 5 [] c = "6" -> 6 [] c = "7" -> 7
      [] c = "8" -> 8 [] c = "9" -> 9

DigitChar(n) ==
    CASE n = 0 -> "0" [] n = 1 -> "1" [] n = 2 -> "2" [] n = 3 -> "3"
      [] n = 4 -> "4" [] n = 5 -> "5" [] n = 6 -> "6" [] n = 7 -> "7"
      [] n = 8 -> "8" [] n = 9 -> "9"

\* The index after the run of digits of s that starts at index i.
RECURSIVE DigitsEnd(_, _)
DigitsEnd(s, i) ==
    IF i <= Len(s) /\ IsDigit(s[i]) THEN DigitsEnd(s, i + 1) ELSE i

\* The value of the digits s[i..j-1].
RECURSIVE DigitsValue(_, _, _)
DigitsValue(s, i, j) ==
    IF j <= i THEN 0 ELSE 10 * DigitsValue(s, i, j - 1) + DigitVal(s[j - 1])

\* parseFloat: the longest prefix [sign] digits [. digits] of the string, NaN
\* when that prefix holds no digit. Strings carry at most one fractional
\* digit, so the value is exact in tenths.
ParseFloat(s) ==
    LET signed == Len(s) >= 1 /\ s[1] \in {"-", "+"}
        start == IF signed THEN 2 ELSE 1
        ie == DigitsEnd(s, start)
        dot == ie <= Len(s) /\ s[ie] = "."
        fe == IF dot THEN DigitsEnd(s, ie + 1) ELSE ie
        ip == DigitsValue(s, start, ie)
        fp == IF dot /\ fe > ie + 1 THEN DigitVal(s[ie + 1]) ELSE 0
        mag == 10 * ip + fp
    IN  IF ie = start /\ ~(dot /\ fe > ie + 1)
        THEN NaN
        ELSE Num(IF signed /\ s[1] = "-" THEN 0 - mag ELSE mag)

\* The + of two numbers: NaN is absorbing.
FAdd(a, b) == IF a.nan \/ b.nan THEN NaN ELSE Num(a.v + b.v)

RECURSIVE NatToString(_)
NatToString(n) ==
    IF n < 10 THEN <<DigitChar(n)>>
    ELSE NatToString(n \div 10) \o <<DigitChar(n % 10)>>

\* Number.prototype.toString: no trailing ".0", "NaN" for NaN.
NumToString(x) ==
    IF x.nan THEN <<"N", "a", "N">>
    ELSE LET mag == IF x.v < 0 THEN 0 - x.v ELSE x.v
             body == NatToString(mag \div 10)
                     \o (IF mag % 10 = 0 THEN << >> ELSE <<".", DigitChar(mag % 10)>>)
         IN  IF x.v < 0 THEN <<"-">> \o body ELSE body

\* ------------------------------------------------------------- the inputs

Users == {"alice"}

Requests == {"r1", "r2"}

\* Date-keys, ISO-8601 date-time strings.
Date1 == "2024-05-06T00:30:00.000Z"

Date2 == "2024-05-07T04:00:00.000Z"

DateKeys == {Date1, Date2}

\* foodItemSchema: six required string fields and the optional mealType
\* (NoMealType when the property is absent).
NoMealType == "<absent>"

Rice ==
    [name |-> "nasi lemak", amount |-> "1 plate", calories |-> <<"6", "4", "4">>,
     protein |-> <<"1", "8", ".", "5">>, carbs |-> <<"8", "0">>,
     fat |-> <<"2", "7", ".", "5">>, mealType |-> NoMealType]

Egg ==
    [name |-> "fried egg", amount |-> "1 piece", calories |-> <<"9", "0", ".", "0">>,
     protein |-> <<"6", ".", "3">>, carbs |-> <<"0", ".", "6">>,
     fat |-> <<"6", ".", "8">>, mealType |-> NoMealType]

Latte ==
    [name |-> "latte", amount |-> "250ml", calories |-> <<"1", "2", "0">>,
     protein |-> <<"6">>, carbs |-> <<"1", "0">>,
     fat |-> <<"6">>, mealType |-> NoMealType]

\* Rice again, equal on the six identity fields, with a mealType.
RiceLunch == [Rice EXCEPT !.mealType = "Lunch"]

FoodItems == {Rice, Egg, Latte, RiceLunch}

\* The foods arrays the model answers with: none, two distinct foods, a list
\* that overlaps another, a food that differs from Rice in mealType only, and
\* the same food twice.
FoodLists ==
    {<< >>, <<Rice, Egg>>, <<Egg, Latte>>, <<RiceLunch>>, <<Latte, Latte>>}

NutrientFields == {"calories", "protein", "carbs", "fat"}

IdentityFields == {"name", "amount", "calories", "protein", "carbs", "fat"}

ZeroSummary ==
    [calories |-> <<"0">>, protein |-> <<"0">>, carbs |-> <<"0">>, fat |-> <<"0">>]

\* ------------------------------------------------------ the daily recompute

\* The reduce step: each field is parsed, added and written back as a string.
SummaryStep(acc, food) ==
    [f \in NutrientFields |-> NumToString(FAdd(ParseFloat(acc[f]), ParseFloat(food[f])))]

\* foods.reduce(step, {calories: "0", protein: "0", carbs: "0", fat: "0"})
\* over the first n foods.
RECURSIVE SummaryReduce(_, _)
SummaryReduce(foods, n) ==
    IF n = 0 THEN ZeroSummary
    ELSE SummaryStep(SummaryReduce(foods, n - 1), foods[n])

recalculatedSummary(foods) == SummaryReduce(foods, Len(foods))

\* ------------------------------------------------------- the AI's fragments

\* A record whose summary holds the right sums of its foods.
Summed(foods) == [foods |-> foods, summary |-> recalculatedSummary(foods)]

\* The records the model answers with: each foods array with its sums, and
\* one whose summary is right but written the model's way ("90.0").
DailyRecords ==
    {Summed(fl) : fl \in FoodLists}
    \cup {[foods |-> <<Egg>>,
           summary |-> [f \in NutrientFields |-> Egg[f]]]}

EmptyLedger == [d \in {} |-> ZeroSummary]

\* A validated AI response: its date-keys in Object.keys order, and the
\* record of each.
EmptyResponse == [keys |-> << >>, recs |-> EmptyLedger]

OneKeyResponses ==
    {[keys |-> <<Date1>>, recs |-> (Date1 :> rec)] : rec \in DailyRecords}
    \cup {[keys |-> <<Date2>>, recs |-> (Date2 :> Summed(fl))] :
              fl \in {<<Rice>>, <<Egg, Latte>>}}

\* Responses with two date-keys (the schema allows any number).
TwoKeyResponses ==
    {[keys |-> <<Date2, Date1>>,
      recs |-> (Date2 :> Summed(<<Latte>>) @@ Date1 :> Summed(<<Egg>>))]}

AiResponses == {EmptyResponse} \cup OneKeyResponses \cup TwoKeyResponses

\* A JSON object that is no fragment: its record has no summary.
NoSummaryResponse ==
    [keys |-> <<Date1>>, recs |-> (Date1 :> [foods |-> <<Rice>>])]

\* What JSON.parse(jsonString) hands to the validation.
JsonObjects == AiResponses \cup {NoSummaryResponse}

\* aiResponseSchema.parse(jsonObject) does not throw: a z.record of date-keys,
\* every value an object with foods and summary. A record with no key at all
\* has no value that could fail.
aiResponseSchema(jsonObject) ==
    \A k \in DOMAIN jsonObject.recs :
        {"foods", "summary"} \subseteq DOMAIN jsonObject.recs[k]

\* ------------------------------------------------------------ the KV store

\* What cache.get(userName) gives: nothing, a string that is not JSON, or
\* the JSON of a ledger.
Absent == [kind |-> "absent", data |-> EmptyLedger]

Corrupt == [kind |-> "corrupt", data |-> EmptyLedger]

Stored(ledger) == [kind |-> "ledger", data |-> ledger]

VARIABLES
    cache,           \* the KV namespace: user name -> stored value
    pc,              \* each request's position in its handler
    route,           \* the route of each request: "intake", "delete", "reset"
    userName,        \* each request's user
    date,            \* DELETE's :date parameter
    aiFragment,      \* the response as validated, before the merge touches it
    parsedResponse,  \* the handler's parsedResponse object
    existingData,    \* what the request's cache.get returned
    status,          \* the HTTP status of the response, 0 before it
    body,            \* the ledger returned by a successful intake
    kvOp,            \* the request's store mutation: "none", "put", "delete"
    started          \* requests started so far

vars ==
    <<cache, pc, route, userName, date, aiFragment, parsedResponse, existingData,
      status, body, kvOp, started>>

\* The extraction of the JSON text from the AI's response text.
VARIABLES
    responseText,    \* the text the AI returned, as a sequence of tokens
    jsonString,      \* the candidate the extraction settled on, << >> for none
    parsingStage,    \* the handler's parsingStage
    extractPc        \* "idle", "start", "extracted", "parsed", "failed"

extractVars == <<responseText, jsonString, parsingStage, extractPc>>

\* No extraction is under way.
ExtractIdle ==
    /\ responseText = << >>
    /\ jsonString = << >>
    /\ parsingStage = "initial"
    /\ extractPc = "idle"

\* GET /summary/:userName and GET /daily_intake/:userName.
VARIABLES
    viewCache,       \* what cache.get(userName) gives the view
    currentDate,     \* the date string of new Date() when the view runs
    viewRoute,       \* "none", "summary", "daily_intake"
    viewStatus,      \* the HTTP status of the view's response, 0 before it
    viewBody         \* the body of the view's response

viewVars == <<viewCache, currentDate, viewRoute, viewStatus, viewBody>>

\* The body before a response.
NoBody ==
    [dailyIntakes |-> << >>,
     total |-> [f \in {"calories", "protein", "carbs", "fat"} |-> << >>],
     average |-> [f \in {"calories", "protein", "carbs", "fat"} |-> << >>]]

\* No view has run.
ViewIdle ==
    /\ viewCache = [kind |-> "absent", keys |-> << >>]
    /\ currentDate = "2024-05-27T02:00:00.000Z"
    /\ viewRoute = "none"
    /\ viewStatus = 0
    /\ viewBody = NoBody

\* The reader of a streamed AI response.
VARIABLES
    readerChunks,    \* the chunks of bytes the stream delivers, in order
    readerPos,       \* the number of chunks reader.read() has returned
    streamText,      \* responseText as the loop builds it
    readerDone       \* reader.read() has returned done

streamVars == <<readerChunks, readerPos, streamText, readerDone>>

\* No stream is being read.
StreamIdle ==
    /\ readerChunks = << >>
    /\ readerPos = 0
    /\ streamText = << >>
    /\ readerDone = TRUE

\* The WebSocket relay.
VARIABLES
    sessions,        \* the clientIds of the handler's sessions map
    presence,        \* the clientIds c whose key ws:c the store holds
    connPc,          \* each connection's position in the upgrade and the close
    inbox,           \* the types of the messages sent on each client's socket
    postPc,          \* each POST's position: "idle", "lookup", "listed", "done"
    postType,        \* message.type of each POST
    postTarget,      \* message.clientId of each POST
    postKeys,        \* the clientIds cache.list gave a broadcast
    postStatus       \* the HTTP status of each POST's response, 0 before it

relayVars ==
    <<sessions, presence, connPc, inbox, postPc, postType, postTarget, postKeys,
      postStatus>>

Clients == {"c1", "c2"}

Posts == {"p1", "p2"}

\* No client has connected and no POST was made.
RelayIdle ==
    /\ sessions = {}
    /\ presence = {}
    /\ connPc = [c \in Clients |-> "none"]
    /\ inbox = [c \in Clients |-> << >>]
    /\ postPc = [p \in Posts |-> "idle"]
    /\ postType = [p \in Posts |-> "none"]
    /\ postTarget = [p \in Posts |-> "c1"]
    /\ postKeys = [p \in Posts |-> {}]
    /\ postStatus = [p \in Posts |-> 0]

\* The recomputation of a day's summary over a foods array and over the same
\* foods in another order.
VARIABLES
    summaryFoods,       \* parsedResponse[intakeDate].foods of one request
    permutedFoods,      \* the same foods in another order, of another request
    summaryOfFoods,     \* the summary recomputed over summaryFoods
    summaryOfPermuted   \* the summary recomputed over permutedFoods

summaryVars == <<summaryFoods, permutedFoods, summaryOfFoods, summaryOfPermuted>>

\* The value of a summary that was not recomputed yet: no number in any field.
NotRecomputed == [f \in NutrientFields |-> << >>]

\* No summary is being recomputed.
SummaryIdle ==
    /\ summaryFoods = << >>
    /\ permutedFoods = << >>
    /\ summaryOfFoods = NotRecomputed
    /\ summaryOfPermuted = NotRecomputed

\* GET /leaderboard.
VARIABLES
    boardCache,      \* the value the store holds under each of its keys
    boardDate,       \* new Date().toISOString() of the request
    boardStatus,     \* the HTTP status of the response, 0 before it
    boardBody        \* the leaderboard array of the response

boardVars == <<boardCache, boardDate, boardStatus, boardBody>>

\* The names of the store's keys as characters, in the order cache.list()
\* gives them: six users and the presence key of a WebSocket client.
BoardKeys ==
    << <<"a", "l", "i", "c", "e">>, <<"a", "m", "y">>, <<"b", "o">>,
       <<"f", "a", "r", "i", "d">>, <<"n", "u", "r", "u", "l">>,
       <<"s", "i", "t", "i">>, <<"w", "s", ":", "c", "1">> >>

\* No leaderboard was asked for.
BoardIdle ==
    /\ boardCache = [i \in 1..Len(BoardKeys) |-> [kind |-> "ledger", entries |-> << >>]]
    /\ boardDate = "2024-05-27T02:00:00.000Z"
    /\ boardStatus = 0
    /\ boardBody = << >>

restVars == <<summaryVars, boardVars>>

RestIdle == SummaryIdle /\ BoardIdle

auxVars == <<extractVars, viewVars, streamVars, relayVars, restVars>>

\* The store and the requests at rest: no request has started.
CoreIdle ==
    /\ cache = [u \in Users |-> Absent]
    /\ pc = [r \in Requests |-> "idle"]
    /\ route = [r \in Requests |-> "none"]
    /\ userName = [r \in Requests |-> "alice"]
    /\ date = [r \in Requests |-> Date1]
    /\ aiFragment = [r \in Requests |-> EmptyResponse]
    /\ parsedResponse = [r \in Requests |-> EmptyResponse]
    /\ existingData = [r \in Requests |-> Absent]
    /\ status = [r \in Requests |-> 0]
    /\ body = [r \in Requests |-> EmptyLedger]
    /\ kvOp = [r \in Requests |-> "none"]
    /\ started = 0

\* ------------------------------------------------------------- POST /intake

\* Object.keys(parsedResponse)[0]; as a property key, undefined is "undefined".
intakeDate(p) == IF Len(p.keys) = 0 THEN "undefined" ELSE p.keys[1]

\* A comparison of whole food objects, mealType included.
foodExistsWithMealType(existingFoods, newFood) ==
    \E i \in 1..Len(existingFoods) : existingFoods[i] = newFood

\* newFood matches an existing food on the six compared properties.
foodExists(existingFoods, newFood) ==
    \E i \in 1..Len(existingFoods) :
        \A prop \in IdentityFields : existingFoods[i][prop] = newFood[prop]

\* No filter: every incoming food counts as new.
newFoodsUnfiltered(existingFoods, incoming) == incoming

newFoods(existingFoods, incoming) ==
    SelectSeq(incoming, LAMBDA food : ~foodExists(existingFoods, food))

\* The incoming foods appended whole.
updatedFoodsAppendAll(existingFoods, incoming) == existingFoods \o incoming

updatedFoods(existingFoods, incoming) ==
    existingFoods \o newFoods(existingFoods, incoming)

\* A merge against the store as it is at the put, not as it was read.
FreshLedger(r) == cache[userName[r]]

\* The ledger the request read, as the merge sees it.
ExistingLedger(r) == existingData[r]

\* The branches without the catch of the parse error: a value that does not
\* parse is handled like a ledger with no date-key.
MergeBranchNoCatch(e, p) ==
    IF e.kind = "absent" THEN "save"
    ELSE IF intakeDate(p) \in DOMAIN e.data THEN "merge"
    ELSE "add"

\* The branch of the merge taken for stored value e and response p.
MergeBranch(e, p) ==
    IF e.kind = "absent" THEN "save"
    ELSE IF e.kind = "corrupt" THEN "replace"
    ELSE IF intakeDate(p) \in DOMAIN e.data THEN "merge"
    ELSE "add"

\* A put of the response alone, whatever was stored.
PutValueOverwrite(e, p) == Stored(p.recs)

\* The value handed to cache.put.
PutValue(e, p) ==
    LET d == intakeDate(p)
        branch == MergeBranch(e, p)
    IN  IF branch = "merge"
        THEN Stored([k \in DOMAIN e.data |->
                        IF k = d
                        THEN [foods |-> updatedFoods(e.data[d].foods, p.recs[d].foods),
                              summary |-> p.recs[d].summary]
                        ELSE e.data[k]])
        ELSE IF branch = "add"
        THEN IF Len(p.keys) = 0
             THEN Stored(e.data)
             ELSE Stored([k \in (DOMAIN e.data) \cup {d} |->
                             IF k = d THEN p.recs[d] ELSE e.data[k]])
        ELSE Stored(p.recs)

\* parsedResponse after the merge: its foods replaced in the merge branch.
MergedResponse(e, p) ==
    LET d == intakeDate(p)
    IN  IF MergeBranch(e, p) = "merge"
        THEN [p EXCEPT !.recs[d].foods = updatedFoods(e.data[d].foods, p.recs[d].foods)]
        ELSE p

\* parsedResponse as returned: the first date-key's summary recomputed.
RespondedResponse(p) ==
    LET d == intakeDate(p)
    IN  [p EXCEPT !.recs[d].summary = recalculatedSummary(p.recs[d].foods)]

Idle(r) == pc[r] \in {"idle", "done"} /\ started < MaxRequests

\* The AI response is extracted and validated, then cache.get is awaited.
IntakeRead(r, u, p) ==
    /\ Idle(r)
    /\ aiResponseSchema(p)
    /\ route' = [route EXCEPT ![r] = "intake"]
    /\ started' = started + 1
    /\ pc' = [pc EXCEPT ![r] = "intakeGot"]
    /\ userName' = [userName EXCEPT ![r] = u]
    /\ aiFragment' = [aiFragment EXCEPT ![r] = p]
    /\ parsedResponse' = [parsedResponse EXCEPT ![r] = p]
    /\ existingData' = [existingData EXCEPT ![r] = cache[u]]
    /\ status' = [status EXCEPT ![r] = 0]
    /\ body' = [body EXCEPT ![r] = EmptyLedger]
    /\ kvOp' = [kvOp EXCEPT ![r] = "none"]
    /\ UNCHANGED <<cache, date>>
    /\ UNCHANGED auxVars

\* No JSON found, a parse failure or a schema failure: the handler throws
\* before it touches the store.
IntakeReject(r, u) ==
    /\ Idle(r)
    /\ route' = [route EXCEPT ![r] = "intake"]
    /\ started' = started + 1
    /\ pc' = [pc EXCEPT ![r] = "done"]
    /\ userName' = [userName EXCEPT ![r] = u]
    /\ aiFragment' = [aiFragment EXCEPT ![r] = EmptyResponse]
    /\ parsedResponse' = [parsedResponse EXCEPT ![r] = EmptyResponse]
    /\ existingData' = [existingData EXCEPT ![r] = Absent]
    /\ status' = [status EXCEPT ![r] = 500]
    /\ body' = [body EXCEPT ![r] = EmptyLedger]
    /\ kvOp' = [kvOp EXCEPT ![r] = "none"]
    /\ UNCHANGED <<cache, date>>
    /\ UNCHANGED auxVars

\* The merge against what was read, and the put of its result.
IntakePut(r) ==
    /\ pc[r] = "intakeGot"
    /\ cache' = [cache EXCEPT ![userName[r]] = PutValue(ExistingLedger(r), parsedResponse[r])]
    /\ parsedResponse' =
           [parsedResponse EXCEPT ![r] = MergedResponse(ExistingLedger(r), parsedResponse[r])]
    /\ kvOp' = [kvOp EXCEPT ![r] = "put"]
    /\ pc' = [pc EXCEPT ![r] = "intakePut"]
    /\ UNCHANGED <<route, userName, date, aiFragment, existingData, status, body, started>>
    /\ UNCHANGED auxVars

\* After the put: the summary is recomputed and the response sent; with no
\* date-key, parsedResponse[undefined].foods throws and the request fails.
\* The handler's locals end with it.
IntakeRespond(r) ==
    /\ pc[r] = "intakePut"
    /\ pc' = [pc EXCEPT ![r] = "done"]
    /\ IF Len(parsedResponse[r].keys) = 0
       THEN /\ status' = [status EXCEPT ![r] = 500]
            /\ UNCHANGED body
       ELSE /\ body' = [body EXCEPT ![r] = RespondedResponse(parsedResponse[r]).recs]
            /\ status' = [status EXCEPT ![r] = 200]
    /\ aiFragment' = [aiFragment EXCEPT ![r] = EmptyResponse]
    /\ parsedResponse' = [parsedResponse EXCEPT ![r] = EmptyResponse]
    /\ existingData' = [existingData EXCEPT ![r] = Absent]
    /\ UNCHANGED <<cache, route, userName, date, kvOp, started>>
    /\ UNCHANGED auxVars

\* ------------------------------------------ DELETE /intake/:userName/:date

\* cache.get is awaited.
DeleteRead(r, u, d) ==
    /\ Idle(r)
    /\ route' = [route EXCEPT ![r] = "delete"]
    /\ started' = started + 1
    /\ pc' = [pc EXCEPT ![r] = "deleteGot"]
    /\ userName' = [userName EXCEPT ![r] = u]
    /\ date' = [date EXCEPT ![r] = d]
    /\ aiFragment' = [aiFragment EXCEPT ![r] = EmptyResponse]
    /\ parsedResponse' = [parsedResponse EXCEPT ![r] = EmptyResponse]
    /\ existingData' = [existingData EXCEPT ![r] = cache[u]]
    /\ status' = [status EXCEPT ![r] = 0]
    /\ body' = [body EXCEPT ![r] = EmptyLedger]
    /\ kvOp' = [kvOp EXCEPT ![r] = "none"]
    /\ UNCHANGED cache
    /\ UNCHANGED auxVars

\* parsedData after `delete parsedData[date]`.
WithoutDate(ledger, d) == [k \in (DOMAIN ledger) \ {d} |-> ledger[k]]

\* No check of Object.keys(parsedData).length: what is left is always put.
DeleteOutcomeAlwaysPut(e, d) ==
    IF e.kind = "absent" THEN "noUser"
    ELSE IF e.kind = "corrupt" THEN "parseError"
    ELSE IF d \notin DOMAIN e.data THEN "noDate"
    ELSE "put"

\* No check that the date exists: the ledger is written back either way.
DeleteOutcomeNoDateCheck(e, d) ==
    IF e.kind = "absent" THEN "noUser"
    ELSE IF e.kind = "corrupt" THEN "parseError"
    ELSE IF DOMAIN [k \in (DOMAIN e.data) \ {d} |-> e.data[k]] # {} THEN "put"
    ELSE "delete"

\* The outcome of the delete handler on what it read: 404 for no data or no
\* such date, 500 when JSON.parse throws, else the put or the delete.
DeleteOutcome(e, d) ==
    IF e.kind = "absent" THEN "noUser"
    ELSE IF e.kind = "corrupt" THEN "parseError"
    ELSE IF d \notin DOMAIN e.data THEN "noDate"
    ELSE IF DOMAIN WithoutDate(e.data, d) # {} THEN "put"
    ELSE "delete"

DeleteFinish(r) ==
    LET e == existingData[r]
        out == DeleteOutcome(e, date[r])
    IN  /\ pc[r] = "deleteGot"
        /\ pc' = [pc EXCEPT ![r] = "done"]
        /\ cache' =
               IF out = "put"
               THEN [cache EXCEPT ![userName[r]] = Stored(WithoutDate(e.data, date[r]))]
               ELSE IF out = "delete"
               THEN [cache EXCEPT ![userName[r]] = Absent]
               ELSE cache
        /\ kvOp' = [kvOp EXCEPT ![r] = IF out \in {"put", "delete"} THEN out ELSE "none"]
        /\ status' = [status EXCEPT ![r] =
                         IF out \in {"noUser", "noDate"} THEN 404
                         ELSE IF out = "parseError" THEN 500 ELSE 200]
        /\ existingData' = [existingData EXCEPT ![r] = Absent]
        /\ UNCHANGED <<route, userName, date, aiFragment, parsedResponse, body, started>>
        /\ UNCHANGED auxVars

\* ------------------------------------------------ POST /resetkv/:userName

ResetKv(r, u) ==
    /\ Idle(r)
    /\ route' = [route EXCEPT ![r] = "reset"]
    /\ started' = started + 1
    /\ pc' = [pc EXCEPT ![r] = "done"]
    /\ userName' = [userName EXCEPT ![r] = u]
    /\ cache' = [cache EXCEPT ![u] = Absent]
    /\ aiFragment' = [aiFragment EXCEPT ![r] = EmptyResponse]
    /\ parsedResponse' = [parsedResponse EXCEPT ![r] = EmptyResponse]
    /\ existingData' = [existingData EXCEPT ![r] = Absent]
    /\ status' = [status EXCEPT ![r] = 200]
    /\ body' = [body EXCEPT ![r] = EmptyLedger]
    /\ kvOp' = [kvOp EXCEPT ![r] = "delete"]
    /\ UNCHANGED date
    /\ UNCHANGED auxVars

\* ------------------------------------------------------- the specification

\* The store starts empty for a user, with bytes that are not JSON, or with
\* a ledger earlier intakes left: one date-key, or two.
InitialValues ==
    {Absent, Corrupt,
     Stored(Date1 :> Summed(<<Rice, Egg>>)),
     Stored(Date1 :> Summed(<<Rice, Egg>>) @@ Date2 :> Summed(<<Rice>>))}

Init ==
    /\ cache \in [Users -> InitialValues]
    /\ pc = [r \in Requests |-> "idle"]
    /\ route = [r \in Requests |-> "none"]
    /\ userName = [r \in Requests |-> "alice"]
    /\ date = [r \in Requests |-> Date1]
    /\ aiFragment = [r \in Requests |-> EmptyResponse]
    /\ parsedResponse = [r \in Requests |-> EmptyResponse]
    /\ existingData = [r \in Requests |-> Absent]
    /\ status = [r \in Requests |-> 0]
    /\ body = [r \in Requests |-> EmptyLedger]
    /\ kvOp = [r \in Requests |-> "none"]
    /\ started = 0
    /\ ExtractIdle
    /\ ViewIdle
    /\ StreamIdle
    /\ RelayIdle
    /\ RestIdle

Next ==
    \/ \E r \in Requests, u \in Users, p \in JsonObjects : IntakeRead(r, u, p)
    \/ \E r \in Requests, u \in Users : IntakeReject(r, u)
    \/ \E r \in Requests : IntakePut(r)
    \/ \E r \in Requests : IntakeRespond(r)
    \/ \E r \in Requests, u \in Users, d \in DateKeys : DeleteRead(r, u, d)
    \/ \E r \in Requests : DeleteFinish(r)
    \/ \E r \in Requests, u \in Users : ResetKv(r, u)

Spec == Init /\ [][Next]_vars

\* ------------------------------------------------------------ the claims

\* The steps of a request, as changes of its position.
PutStep(r) == pc[r] = "intakeGot" /\ pc'[r] = "intakePut"

RespondStep(r) == pc[r] = "intakePut" /\ pc'[r] = "done"

DeleteStep(r) == pc[r] = "deleteGot" /\ pc'[r] = "done"

\* Two foods equal on name, amount, calories, protein, carbs and fat.
SixFieldEqual(a, b) ==
    /\ a.name = b.name
    /\ a.amount = b.amount
    /\ a.calories = b.calories
    /\ a.protein = b.protein
    /\ a.carbs = b.carbs
    /\ a.fat = b.fat

\* The sum of field f over the first n foods, as a number.
RECURSIVE FieldSum(_, _, _)
FieldSum(foods, f, n) ==
    IF n = 0 THEN Num(0)
    ELSE FAdd(FieldSum(foods, f, n - 1), ParseFloat(foods[n][f]))

\* The record's summary is, field by field, the sum over its foods.
SummaryIsSum(rec) ==
    \A f \in NutrientFields :
        ParseFloat(rec.summary[f]) = FieldSum(rec.foods, f, Len(rec.foods))

\* C1: every date-key of every persisted ledger has a summary whose
\* calories, protein, carbs and fat each equal the sum of that field over the
\* record's foods.
C1_StoredSummaryIsSum ==
    \A u \in Users :
        \A d \in DOMAIN cache[u].data : SummaryIsSum(cache[u].data[d])

\* Two records with the same foods and numerically equal summaries.
SameRecord(a, b) ==
    /\ a.foods = b.foods
    /\ \A f \in NutrientFields : ParseFloat(a.summary[f]) = ParseFloat(b.summary[f])

\* C2: on a successful intake with date-key D, the record the request put in
\* the store under D equals the record it returns under D (the summaries
\* compared as numbers).
C2_StoredEqualsReturned ==
    [][\A r \in Requests :
          (RespondStep(r) /\ status'[r] = 200) =>
              LET d == intakeDate(aiFragment[r])
              IN  SameRecord(PutValue(existingData[r], aiFragment[r]).data[d], body'[r][d])]_vars

\* The foods of inc that equal no food of ex on the six fields, in order.
RECURSIVE Survivors(_, _)
Survivors(ex, inc) ==
    IF inc = << >> THEN << >>
    ELSE (IF \E i \in 1..Len(ex) : SixFieldEqual(ex[i], Head(inc))
          THEN << >> ELSE <<Head(inc)>>)
         \o Survivors(ex, Tail(inc))

\* The put of request r merges into a date-key its read ledger holds.
MergesIntoExisting(r) ==
    /\ PutStep(r)
    /\ existingData[r].kind = "ledger"
    /\ intakeDate(aiFragment[r]) \in DOMAIN existingData[r].data

\* C3: when the ledger read already has the incoming date-key, the foods
\* list put in the store is the existing foods in their order followed by
\* exactly the incoming foods that equal no existing food on the six
\* fields, in their incoming order; [A,B] merged with [B,C] gives [A,B,C].
C3_MergeAppendsNewFoods ==
    [][\A r \in Requests :
          MergesIntoExisting(r) =>
              LET d == intakeDate(aiFragment[r])
                  ex == existingData[r].data[d].foods
                  inc == aiFragment[r].recs[d].foods
                  out == cache'[userName[r]].data[d].foods
              IN  /\ out = ex \o Survivors(ex, inc)
                  /\ (ex = <<Rice, Egg>> /\ inc = <<Egg, Latte>>)
                         => out = <<Rice, Egg, Latte>>]_vars

\* C3's case: [Rice, Egg] was read, [Egg, Latte] arrived, and the store
\* holds [Rice, Egg, Latte].
C3_Witness ==
    \E r \in Requests :
        /\ pc[r] = "intakePut"
        /\ existingData[r].kind = "ledger"
        /\ Date1 \in DOMAIN existingData[r].data
        /\ existingData[r].data[Date1].foods = <<Rice, Egg>>
        /\ aiFragment[r].keys = <<Date1>>
        /\ aiFragment[r].recs[Date1].foods = <<Egg, Latte>>
        /\ cache[userName[r]].data[Date1].foods = <<Rice, Egg, Latte>>

\* C4: for every stored value an intake read (absent, not JSON, lacking the
\* date-key or holding it) and every fragment f, a second intake of f that
\* runs on what the first has put stores, for f's date-key, the foods list
\* the first stored.
C4_MergeIdempotentOnFoods ==
    [][\A r \in Requests :
          (PutStep(r) /\ Len(aiFragment[r].keys) > 0) =>
              LET d == intakeDate(aiFragment[r])
                  once == cache'[userName[r]]
                  twice == PutValue(once, aiFragment[r])
              IN  /\ d \in DOMAIN once.data
                  /\ twice.data[d].foods = once.data[d].foods]_vars

\* C4's case: one intake has stored its fragment, and a second intake of the
\* same fragment has read that ledger and put its merge, the foods list as
\* it was.
C4_Witness ==
    \E r \in Requests, q \in Requests :
        /\ q # r
        /\ route[q] = "intake" /\ pc[q] = "done" /\ status[q] = 200
        /\ pc[r] = "intakePut"
        /\ existingData[r].kind = "ledger"
        /\ existingData[r].data = aiFragment[r].recs
        /\ Len(aiFragment[r].recs[intakeDate(aiFragment[r])].foods) > 0
        /\ cache[userName[r]].data[intakeDate(aiFragment[r])].foods
               = existingData[r].data[intakeDate(aiFragment[r])].foods

\* C5 as claimed: no stored foods list holds two entries equal on the six
\* fields.
C5_NoDuplicatesStored ==
    \A u \in Users :
        \A d \in DOMAIN cache[u].data :
            LET foods == cache[u].data[d].foods
            IN  \A i \in 1..Len(foods), j \in 1..Len(foods) :
                    i # j => ~SixFieldEqual(foods[i], foods[j])

\* How many entries of foods equal x on the six fields.
Occurrences(x, foods) ==
    Cardinality({i \in 1..Len(foods) : SixFieldEqual(foods[i], x)})

\* C5, amended: a merge into an existing date-key stores no further copy of
\* a food the existing list already holds: each existing food occurs in the
\* stored list as many times as it did before.
C5_ExistingFoodsNotRepeated ==
    [][\A r \in Requests :
          MergesIntoExisting(r) =>
              LET d == intakeDate(aiFragment[r])
                  ex == existingData[r].data[d].foods
                  out == cache'[userName[r]].data[d].foods
              IN  \A i \in 1..Len(ex) : Occurrences(ex[i], out) = Occurrences(ex[i], ex)]_vars

\* C5's case: a merge has stored fewer foods than the existing and the
\* incoming ones together, an incoming food being suppressed.
C5_Witness ==
    \E r \in Requests :
        /\ pc[r] = "intakePut"
        /\ existingData[r].kind = "ledger"
        /\ intakeDate(aiFragment[r]) \in DOMAIN existingData[r].data
        /\ LET d == intakeDate(aiFragment[r])
           IN  /\ d \in DOMAIN cache[userName[r]].data
               /\ Len(aiFragment[r].recs[d].foods) > 0
               /\ Len(cache[userName[r]].data[d].foods)
                      < Len(existingData[r].data[d].foods) + Len(aiFragment[r].recs[d].foods)

\* C6: the put of an intake with date-key D on a ledger that parsed carries
\* every other date-key's record over as it was read, so it leaves them
\* unchanged in the store whenever the store still holds what was read; and
\* when D was not in the ledger, or there was no ledger, the record stored
\* under D is the fragment's record as supplied.
C6_OtherDatesKeptNewDateVerbatim ==
    [][\A r \in Requests :
          (PutStep(r) /\ Len(aiFragment[r].keys) > 0) =>
              LET d == intakeDate(aiFragment[r])
                  e == existingData[r]
                  u == userName[r]
              IN  /\ e.kind = "ledger" =>
                         /\ cache'[u].kind = "ledger"
                         /\ DOMAIN cache'[u].data = (DOMAIN e.data) \cup {d}
                         /\ \A k \in (DOMAIN e.data) \ {d} : cache'[u].data[k] = e.data[k]
                         /\ e = cache[u] =>
                                \A k \in (DOMAIN cache[u].data) \ {d} :
                                    cache'[u].data[k] = cache[u].data[k]
                  /\ (e.kind = "absent" \/ (e.kind = "ledger" /\ d \notin DOMAIN e.data)) =>
                         cache'[u].data[d] = aiFragment[r].recs[d]]_vars

\* C6's case: a put has added a new date-key, with the summary as the model
\* wrote it, to a ledger that holds another date-key.
C6_Witness ==
    \E r \in Requests :
        /\ pc[r] = "intakePut"
        /\ existingData[r].kind = "ledger"
        /\ existingData[r] = Stored(Date1 :> Summed(<<Rice, Egg>>))
        /\ aiFragment[r].keys = <<Date2>>
        /\ cache[userName[r]] =
               Stored(Date1 :> Summed(<<Rice, Egg>>) @@ Date2 :> aiFragment[r].recs[Date2])

\* C7: when the stored value does not parse as JSON, the put stores the new
\* fragment and nothing else, and the request, its response holding a
\* date-key, succeeds.
C7_CorruptLedgerReplaced ==
    [][\A r \in Requests :
          /\ (PutStep(r) /\ existingData[r].kind = "corrupt") =>
                 cache'[userName[r]] = Stored(aiFragment[r].recs)
          /\ (RespondStep(r) /\ existingData[r].kind = "corrupt"
                  /\ Len(aiFragment[r].keys) > 0) =>
                 /\ status'[r] = 200
                 /\ kvOp'[r] = "put"]_vars

\* C7's case: an intake that read a value that is not JSON has put its
\* two-key fragment, and the store holds that fragment alone.
C7_Witness ==
    \E r \in Requests :
        /\ pc[r] = "intakePut"
        /\ existingData[r].kind = "corrupt"
        /\ Len(aiFragment[r].keys) = 2
        /\ cache[userName[r]] = Stored(aiFragment[r].recs)

\* C8: the put of an intake writes the merge of what the request read, not
\* of what the store holds at the put: the last put wins.
C8_PutWritesMergeOfReadLedger ==
    [][\A r \in Requests :
          PutStep(r) =>
              cache'[userName[r]] = PutValue(existingData[r], aiFragment[r])]_vars

\* Food x is in the user's stored foods under date-key d.
StoredFood(u, d, x) ==
    /\ d \in DOMAIN cache[u].data
    /\ \E i \in 1..Len(cache[u].data[d].foods) : SixFieldEqual(cache[u].data[d].foods[i], x)

\* C8's case: two intakes for one user read the same ledger before either
\* put, both have put, and the store lacks a food of one of them.
C8_LostUpdate ==
    \E r \in Requests, q \in Requests :
        /\ q # r
        /\ pc[r] = "intakePut" /\ pc[q] = "intakePut"
        /\ userName[r] = userName[q]
        /\ existingData[r] = existingData[q]
        /\ Len(aiFragment[r].keys) > 0 /\ Len(aiFragment[q].keys) > 0
        /\ LET d == intakeDate(aiFragment[r])
           IN  \E i \in 1..Len(aiFragment[r].recs[d].foods) :
                   ~StoredFood(userName[r], d, aiFragment[r].recs[d].foods[i])

\* C9: a delete-by-date of D on a ledger read with D succeeds and removes
\* exactly D: with other date-keys it puts the ledger without D, every other
\* record as read; with D the only date-key it deletes the user's entry.
C9_DeleteRemovesExactlyDate ==
    [][\A r \in Requests :
          LET e == existingData[r]
              d == date[r]
              u == userName[r]
          IN  /\ (DeleteStep(r) /\ status'[r] = 200) =>
                     (e.kind = "ledger" /\ d \in DOMAIN e.data)
              /\ (DeleteStep(r) /\ e.kind = "ledger" /\ d \in DOMAIN e.data) =>
                     /\ status'[r] = 200
                     /\ IF DOMAIN e.data = {d}
                        THEN cache'[u] = Absent /\ kvOp'[r] = "delete"
                        ELSE /\ kvOp'[r] = "put"
                             /\ cache'[u].kind = "ledger"
                             /\ DOMAIN cache'[u].data = (DOMAIN e.data) \ {d}
                             /\ \A k \in (DOMAIN e.data) \ {d} :
                                    cache'[u].data[k] = e.data[k]]_vars

\* C9's cases: one delete has removed the last date-key and with it the
\* entry; another has left the other date-key in the stored ledger.
C9_Witness ==
    \E r \in Requests, q \in Requests :
        /\ q # r
        /\ route[r] = "delete" /\ pc[r] = "done" /\ status[r] = 200 /\ kvOp[r] = "put"
        /\ route[q] = "delete" /\ pc[q] = "done" /\ status[q] = 200 /\ kvOp[q] = "delete"
        /\ cache[userName[q]] = Absent

\* C10: a delete-by-date that read no ledger, or a ledger without the
\* date-key, answers 404 and performs no put and no delete.
C10_DeleteMissingIsNotFound ==
    [][\A r \in Requests :
          LET e == existingData[r]
          IN  (DeleteStep(r)
                  /\ (e.kind = "absent" \/ (e.kind = "ledger" /\ date[r] \notin DOMAIN e.data))) =>
                  /\ status'[r] = 404
                  /\ kvOp'[r] = "none"
                  /\ cache' = cache]_vars

\* C10's case: a delete has answered 404, with no put and no delete, on a
\* ledger that holds the other date-key only.
C10_Witness ==
    \E r \in Requests :
        /\ route[r] = "delete" /\ pc[r] = "done" /\ status[r] = 404 /\ kvOp[r] = "none"
        /\ cache[userName[r]].kind = "ledger"
        /\ DOMAIN cache[userName[r]].data = DateKeys \ {date[r]}

\* C13: the validation rejects a fragment with no date-key: an AI response
\* that is the empty JSON object never passes it, so no intake request that
\* holds it is at the store read or past the store write.
C13_EmptyObjectRejected ==
    \A r \in Requests :
        route[r] = "intake" /\ pc[r] \in {"intakeGot", "intakePut"}
            => Len(aiFragment[r].keys) > 0

\* -------------------------------------- the JSON text in the AI's response

\* The longest text the AI returns.
MaxTextLen == 5

\* The response text is a sequence of tokens: the braces, the fence of three
\* backquotes, the tag json, a newline, a word of prose and a JSON number.
Fence == "fence"

TextTokens == {"{", "}", Fence, "json", "\n", "w", "1"}

ResponseTexts == UNION {[1..n -> TextTokens] : n \in 0..MaxTextLen}

\* \s of the two patterns and the white space of String.prototype.trim.
IsWhiteSpace(c) == c = "\n"

RECURSIVE SkipWhiteSpace(_, _)
\* The first index from i on that holds no white space, Len(s) + 1 for none.
SkipWhiteSpace(s, i) ==
    IF i > Len(s) THEN i
    ELSE IF IsWhiteSpace(s[i]) THEN SkipWhiteSpace(s, i + 1)
    ELSE i

RECURSIVE SkipWhiteSpaceBack(_, _)
\* The last index up to j that holds no white space, 0 for none.
SkipWhiteSpaceBack(s, j) ==
    IF j < 1 THEN 0
    ELSE IF IsWhiteSpace(s[j]) THEN SkipWhiteSpaceBack(s, j - 1)
    ELSE j

\* String.prototype.trim.
Trim(s) == SubSeq(s, SkipWhiteSpace(s, 1), SkipWhiteSpaceBack(s, Len(s)))

\* JSON.parse(s) does not throw: white space around one value, which over
\* these tokens is a number or an object without members.
JsonParses(s) ==
    LET t == Trim(s)
    IN  \/ t = <<"1">>
        \/ /\ Len(t) >= 2
           /\ t[1] = "{"
           /\ t[Len(t)] = "}"
           /\ Trim(SubSeq(t, 2, Len(t) - 1)) = << >>

RECURSIVE IndexFrom(_, _, _)
\* The first index from i on that holds token c, 0 for none.
IndexFrom(s, c, i) ==
    IF i > Len(s) THEN 0
    ELSE IF s[i] = c THEN i
    ELSE IndexFrom(s, c, i + 1)

RECURSIVE LastIndex(_, _, _)
\* The last index up to j that holds token c, 0 for none.
LastIndex(s, c, j) ==
    IF j < 1 THEN 0
    ELSE IF s[j] = c THEN j
    ELSE LastIndex(s, c, j - 1)

\* responseText.match of the code block pattern: a fence, (?:json)?, \s*\n?,
\* the lazy group ([\s\S]*?), \n? and a fence. The leftmost fence that a
\* later fence follows opens the match; the tag and the white
\* space after it are consumed, and the lazy group ends before the next
\* fence. group is codeBlockMatch[1].
codeBlockMatch(s) ==
    LET open == IndexFrom(s, Fence, 1)
        afterTag == IF open > 0 /\ open < Len(s) /\ s[open + 1] = "json"
                    THEN open + 2 ELSE open + 1
        close == IF open = 0 THEN 0 ELSE IndexFrom(s, Fence, afterTag)
        start == SkipWhiteSpace(SubSeq(s, 1, close - 1), afterTag)
        stop == IF close > start /\ s[close - 1] = "\n" THEN close - 2 ELSE close - 1
    IN  IF close = 0
        THEN [found |-> FALSE, group |-> << >>]
        ELSE [found |-> TRUE, group |-> SubSeq(s, start, stop)]

\* A scan that only keeps a span that parses.
jsonMatchParsedOnly(s) ==
    LET first == IndexFrom(s, "{", 1)
        last == LastIndex(s, "}", Len(s))
    IN  IF first > 0 /\ last > first /\ JsonParses(SubSeq(s, first, last))
        THEN SubSeq(s, first, last) ELSE << >>

\* responseText.match(/\{[\s\S]*\}/): from the first opening brace to the
\* last closing brace, << >> for no match.
jsonMatch(s) ==
    LET first == IndexFrom(s, "{", 1)
        last == LastIndex(s, "}", Len(s))
    IN  IF first > 0 /\ last > first THEN SubSeq(s, first, last) ELSE << >>

\* The extraction with the scan for braces tried before the code block.
ExtractedBraceFirst(s) ==
    LET block == codeBlockMatch(s)
        potentialJson == Trim(block.group)
    IN  IF JsonParses(s)
        THEN [jsonString |-> s, parsingStage |-> "full response parsed"]
        ELSE IF jsonMatch(s) # << >>
        THEN [jsonString |-> jsonMatch(s), parsingStage |-> "JSON extracted from text"]
        ELSE IF block.found /\ JsonParses(potentialJson)
        THEN [jsonString |-> potentialJson, parsingStage |-> "code block parsed"]
        ELSE [jsonString |-> << >>, parsingStage |-> "extracting JSON"]

\* jsonString and parsingStage when the extraction ends.
Extracted(s) ==
    LET block == codeBlockMatch(s)
        potentialJson == Trim(block.group)
    IN  IF JsonParses(s)
        THEN [jsonString |-> s, parsingStage |-> "full response parsed"]
        ELSE IF block.found /\ JsonParses(potentialJson)
        THEN [jsonString |-> potentialJson, parsingStage |-> "code block parsed"]
        ELSE IF jsonMatch(s) # << >>
        THEN [jsonString |-> jsonMatch(s), parsingStage |-> "JSON extracted from text"]
        ELSE [jsonString |-> << >>, parsingStage |-> "extracting JSON"]

\* The three attempts; with no candidate the handler throws.
ExtractJson ==
    /\ extractPc = "start"
    /\ jsonString' = Extracted(responseText).jsonString
    /\ parsingStage' = Extracted(responseText).parsingStage
    /\ extractPc' = IF Extracted(responseText).jsonString = << >>
                    THEN "failed" ELSE "extracted"
    /\ UNCHANGED <<responseText, vars, viewVars, streamVars, relayVars, restVars>>

\* JSON.parse(jsonString) of the candidate.
ParseExtracted ==
    /\ extractPc = "extracted"
    /\ parsingStage' = "parsing extracted JSON"
    /\ extractPc' = IF JsonParses(jsonString) THEN "parsed" ELSE "failed"
    /\ UNCHANGED <<responseText, jsonString, vars, viewVars, streamVars, relayVars, restVars>>

InitExtract ==
    /\ CoreIdle
    /\ ViewIdle
    /\ StreamIdle
    /\ RelayIdle
    /\ responseText \in ResponseTexts
    /\ jsonString = << >>
    /\ parsingStage = "initial"
    /\ extractPc = "start"
    /\ RestIdle

NextExtract == ExtractJson \/ ParseExtracted

SpecExtract == InitExtract /\ [][NextExtract]_extractVars

\* ------------------------------------------- the claims on the extraction

\* The extraction of responseText has ended, with a candidate or without.
ExtractionEnded == extractPc \in {"extracted", "parsed", "failed"}

FenceIndexes == {i \in 1..Len(responseText) : responseText[i] = Fence}

\* The tokens between two fences, without the tag and the white space around.
BlockContent(i, j) ==
    LET inner == SubSeq(responseText, i + 1, j - 1)
    IN  Trim(IF inner # << >> /\ inner[1] = "json" THEN Tail(inner) ELSE inner)

\* The first fenced code block: from the first fence to the next one.
HasFirstBlock == Cardinality(FenceIndexes) >= 2

FirstBlockContent ==
    LET i == CHOOSE a \in FenceIndexes : \A b \in FenceIndexes : a <= b
        j == CHOOSE a \in FenceIndexes \ {i} : \A b \in FenceIndexes \ {i} : a <= b
    IN  BlockContent(i, j)

FirstBlockParses == HasFirstBlock /\ JsonParses(FirstBlockContent)

\* Some fenced code block, the first or a later one, holds JSON: the fences
\* pair up in order, an opening fence being the first, the third, ...
SomeBlockParses ==
    \E i, j \in FenceIndexes :
        /\ i < j
        /\ \A k \in FenceIndexes : ~(i < k /\ k < j)
        /\ Cardinality({k \in FenceIndexes : k <= i}) % 2 = 1
        /\ JsonParses(BlockContent(i, j))

\* An opening brace with a closing brace somewhere after it.
HasBraceSpan ==
    \E i, j \in 1..Len(responseText) :
        i < j /\ responseText[i] = "{" /\ responseText[j] = "}"

BraceSpan ==
    LET i == CHOOSE a \in 1..Len(responseText) :
                 /\ responseText[a] = "{"
                 /\ \A b \in 1..(a - 1) : responseText[b] # "{"
        j == CHOOSE a \in 1..Len(responseText) :
                 /\ responseText[a] = "}"
                 /\ \A b \in (a + 1)..Len(responseText) : responseText[b] # "}"
    IN  SubSeq(responseText, i, j)

\* The handler threw "No valid JSON object found".
NoJsonFound == extractPc = "failed" /\ jsonString = << >>

\* C11: the extraction takes the first candidate that succeeds, in a fixed
\* order: a text that parses as JSON as a whole is the candidate, unchanged;
\* otherwise the content of the first fenced code block when it parses, in
\* preference to the scan for braces; only otherwise the span from the first
\* opening brace to the last closing brace, which is taken without being
\* parsed.
C11_ExtractionOrder ==
    ExtractionEnded =>
        /\ JsonParses(responseText) => jsonString = responseText
        /\ ~JsonParses(responseText) /\ FirstBlockParses
              => jsonString = FirstBlockContent
        /\ ~JsonParses(responseText) /\ ~FirstBlockParses /\ HasBraceSpan
              => jsonString = BraceSpan

\* A text with trailing prose that holds a closing brace: the fenced content
\* is the candidate although the scan for braces would give a longer span.
C11_Witness ==
    /\ extractPc = "parsed"
    /\ ~JsonParses(responseText)
    /\ FirstBlockParses
    /\ HasBraceSpan
    /\ BraceSpan # FirstBlockContent
    /\ jsonString = FirstBlockContent
    /\ parsingStage = "parsing extracted JSON"

\* C12 as stated: the extraction fails with "no JSON found" exactly when the
\* text does not parse as a whole, no fenced block has content that parses,
\* and no opening brace is followed by a closing brace.
C12_NoJsonIffNoCandidate ==
    ExtractionEnded =>
        (NoJsonFound <=>
            /\ ~JsonParses(responseText)
            /\ ~SomeBlockParses
            /\ ~HasBraceSpan)

\* C12, amended: the extraction fails with "no JSON found" exactly when the
\* text does not parse as a whole, the content of its first fenced block
\* does not parse, and no opening brace is followed by a closing brace; a
\* span of braces that does not parse is still the candidate, and the
\* request fails later, at the parse of the candidate.
C12_NoJsonIffNoFirstCandidate ==
    ExtractionEnded =>
        /\ NoJsonFound <=>
              /\ ~JsonParses(responseText)
              /\ ~FirstBlockParses
              /\ ~HasBraceSpan
        /\ (/\ ~JsonParses(responseText)
            /\ ~FirstBlockParses
            /\ HasBraceSpan
            /\ ~JsonParses(BraceSpan))
              => /\ jsonString = BraceSpan
                 /\ extractPc = "failed"
                       => parsingStage = "parsing extracted JSON"

\* A span of braces around prose was the candidate and the parse of the
\* candidate failed.
C12_Witness ==
    /\ extractPc = "failed"
    /\ HasBraceSpan
    /\ jsonString = BraceSpan
    /\ ~JsonParses(BraceSpan)
    /\ ~NoJsonFound
    /\ parsingStage = "parsing extracted JSON"

\* ----------------------------------------------------- dates and instants

\* The date-keys of the views: the two of the intake, a key without a time,
\* keys written with the offset +08:00, and keys of other hours, of another
\* year and of another month.
DateOnly == "2024-05-20"

DateOffset == "2024-05-07T01:00:00+08:00"

DateNight == "2024-05-06T20:00:00.000Z"

DateSnack == "2024-05-13T07:00:00.000Z"

DateLastYear == "2023-05-08T10:00:00.000Z"

DateEight == "2024-05-06T08:00:00+08:00"

DateApril == "2024-05-01T07:00:00+08:00"

ViewDateKeys ==
    {Date1, Date2, DateOnly, DateOffset, DateNight, DateSnack, DateLastYear,
     DateEight, DateApril}

\* The dates at which a view runs: two days of May 2024 and one of June.
Monday == "2024-05-27T02:00:00.000Z"

Tuesday == "2024-05-28T02:00:00.000Z"

June == "2024-06-05T02:00:00.000Z"

CurrentDates == {Monday, Tuesday, June}

\* The date-keys of the leaderboard's ledgers: two of Monday 27 May 2024 in
\* UTC, one of them written with an offset on the 28th, one of the Tuesday,
\* and the 27th of another month and of another year.
BoardMorning == "2024-05-27T05:00:00.000Z"

BoardOffset == "2024-05-28T01:00:00+08:00"

BoardTuesday == "2024-05-28T09:00:00.000Z"

BoardApril == "2024-04-27T05:00:00.000Z"

BoardLastYear == "2023-05-27T05:00:00.000Z"

BoardDateKeys == {BoardMorning, BoardOffset, BoardTuesday, BoardApril, BoardLastYear}

\* The fields a date string is written with: year, month, day, hour, minute,
\* the minutes its offset is east of UTC, and whether it has a time at all.
Written(y, mo, d, h, mi, off, timed) ==
    [y |-> y, mo |-> mo, d |-> d, h |-> h, mi |-> mi, off |-> off, timed |-> timed]

DateFields(k) ==
    CASE k = Date1 -> Written(2024, 5, 6, 0, 30, 0, TRUE)
      [] k = Date2 -> Written(2024, 5, 7, 4, 0, 0, TRUE)
      [] k = DateOnly -> Written(2024, 5, 20, 0, 0, 0, FALSE)
      [] k = DateOffset -> Written(2024, 5, 7, 1, 0, 480, TRUE)
      [] k = DateNight -> Written(2024, 5, 6, 20, 0, 0, TRUE)
      [] k = DateSnack -> Written(2024, 5, 13, 7, 0, 0, TRUE)
      [] k = DateLastYear -> Written(2023, 5, 8, 10, 0, 0, TRUE)
      [] k = DateEight -> Written(2024, 5, 6, 8, 0, 480, TRUE)
      [] k = DateApril -> Written(2024, 5, 1, 7, 0, 480, TRUE)
      [] k = Monday -> Written(2024, 5, 27, 2, 0, 0, TRUE)
      [] k = Tuesday -> Written(2024, 5, 28, 2, 0, 0, TRUE)
      [] k = June -> Written(2024, 6, 5, 2, 0, 0, TRUE)
      [] k = BoardMorning -> Written(2024, 5, 27, 5, 0, 0, TRUE)
      [] k = BoardOffset -> Written(2024, 5, 28, 1, 0, 480, TRUE)
      [] k = BoardTuesday -> Written(2024, 5, 28, 9, 0, 0, TRUE)
      [] k = BoardApril -> Written(2024, 4, 27, 5, 0, 0, TRUE)
      [] k = BoardLastYear -> Written(2023, 5, 27, 5, 0, 0, TRUE)

\* The days from 1970-01-01 to the day y-mo-d of the Gregorian calendar.
DaysFromCivil(y, mo, d) ==
    LET yy == IF mo <= 2 THEN y - 1 ELSE y
        era == yy \div 400
        yoe == yy - era * 400
        mp == IF mo > 2 THEN mo - 3 ELSE mo + 9
        doy == (153 * mp + 2) \div 5 + d - 1
        doe == yoe * 365 + yoe \div 4 - yoe \div 100 + doy
    IN  era * 146097 + doe - 719468

\* The year, the month (1..12) and the day of the month of the day that many
\* days after 1970-01-01.
CivilFromDays(days) ==
    LET z == days + 719468
        era == z \div 146097
        doe == z - era * 146097
        yoe == (doe - doe \div 1460 + doe \div 36524 - doe \div 146096) \div 365
        doy == doe - (365 * yoe + yoe \div 4 - yoe \div 100)
        mp == (5 * doy + 2) \div 153
        mo == IF mp < 10 THEN mp + 3 ELSE mp - 9
    IN  [y |-> yoe + era * 400 + (IF mo <= 2 THEN 1 ELSE 0), mo |-> mo,
         d |-> doy - (153 * mp + 2) \div 5 + 1]

\* new Date(k): its time value in minutes (a string without a time is
\* midnight UTC, an offset is taken off the written time) and the UTC year,
\* month (0 for January), day of the month, hour and day of the week of that
\* instant (0 for Sunday; 1970-01-01 was a Thursday). The worker runs in UTC, so getDay is
\* the UTC day.
NewDate(k) ==
    LET w == DateFields(k)
        time == DaysFromCivil(w.y, w.mo, w.d) * 1440 + w.h * 60 + w.mi - w.off
    IN  [time |-> time,
         year |-> CivilFromDays(time \div 1440).y,
         month |-> CivilFromDays(time \div 1440).mo - 1,
         date |-> CivilFromDays(time \div 1440).d,
         hours |-> (time % 1440) \div 60,
         day |-> (time \div 1440 + 4) % 7]

\* The Date objects of the date strings in use.
Dates == [k \in ViewDateKeys \cup CurrentDates \cup BoardDateKeys |-> NewDate(k)]

getTime(k) == Dates[k].time

getUTCFullYear(k) == Dates[k].year

getUTCMonth(k) == Dates[k].month

getUTCDate(k) == Dates[k].date

getUTCHours(k) == Dates[k].hours

getDay(k) == Dates[k].day

\* new Date(k).toISOString().endsWith("T00:00:00.000Z").
IsoEndsWithMidnight(k) == getTime(k) % 1440 = 0

\* toLocaleDateString("en-US", {weekday: "long"}).
WeekdayName(k) ==
    CASE getDay(k) = 0 -> "Sunday" [] getDay(k) = 1 -> "Monday"
      [] getDay(k) = 2 -> "Tuesday" [] getDay(k) = 3 -> "Wednesday"
      [] getDay(k) = 4 -> "Thursday" [] getDay(k) = 5 -> "Friday"
      [] getDay(k) = 6 -> "Saturday"

\* getMealType(new Date(k).toISOString()); the label "On <Weekday>" is the
\* pair of "On" and the name.
getMealType(k) ==
    LET hour == (getUTCHours(k) + 8) % 24
    IN  IF IsoEndsWithMidnight(k) THEN <<"On", WeekdayName(k)>>
        ELSE IF hour >= 5 /\ hour < 11 THEN <<"Breakfast">>
        ELSE IF hour >= 11 /\ hour < 14 THEN <<"Lunch">>
        ELSE IF hour >= 14 /\ hour < 17 THEN <<"Snack">>
        ELSE IF hour >= 17 /\ hour < 21 THEN <<"Dinner">>
        ELSE <<"Late Night Snack">>

\* ------------------------------------------------------ the stored ledgers

\* The most date-keys a ledger of the views holds.
MaxDays == 3

\* The record stored under each date-key.
Records ==
    Date1 :> Summed(<<Rice, Egg>>)
    @@ Date2 :> Summed(<<Latte>>)
    @@ DateOnly :> Summed(<<Egg, Latte>>)
    @@ DateOffset :> Summed(<<Rice>>)
    @@ DateNight :> Summed(<<Latte, Latte>>)
    @@ DateSnack :> Summed(<<RiceLunch>>)
    @@ DateLastYear :> Summed(<<Egg>>)
    @@ DateEight :> Summed(<<Egg, Rice>>)
    @@ DateApril :> Summed(<< >>)

RecordAt(k) == Records[k]

\* The ledgers: their date-keys in the order of Object.entries, each once.
ViewLedgers ==
    {keys \in UNION {[1..n -> ViewDateKeys] : n \in 0..MaxDays} :
        \A i, j \in 1..Len(keys) : i # j => keys[i] # keys[j]}

\* What cache.get(userName) gives the views: nothing, a string that is not
\* JSON, or the JSON of a ledger.
ViewValues ==
    {[kind |-> "absent", keys |-> << >>], [kind |-> "corrupt", keys |-> << >>]}
    \cup {[kind |-> "ledger", keys |-> keys] : keys \in ViewLedgers}

\* ------------------------------------------------- GET /summary/:userName

\* The date-key lies in the UTC year and month of the current date.
InCurrentMonthOnly(k, now) == getUTCMonth(k) = getUTCMonth(now)

InCurrentMonth(k, now) ==
    /\ getUTCFullYear(k) = getUTCFullYear(now)
    /\ getUTCMonth(k) = getUTCMonth(now)

\* The date-keys of allIntakes, in the order they were entered.
allIntakes(keys, now) == SelectSeq(keys, LAMBDA k : InCurrentMonth(k, now))

RECURSIVE dailySummary(_, _, _)
\* foods.reduce with parseFloat from 0, for field f over the first n foods.
dailySummary(foods, f, n) ==
    IF n = 0 THEN Num(0)
    ELSE FAdd(dailySummary(foods, f, n - 1), ParseFloat(foods[n][f]))

RECURSIVE overallSummary(_, _, _)
\* overallSummary[f] after the first n date-keys of keys.
overallSummary(keys, f, n) ==
    IF n = 0 THEN Num(0)
    ELSE FAdd(overallSummary(keys, f, n - 1),
              dailySummary(RecordAt(keys[n]).foods, f, Len(RecordAt(keys[n]).foods)))

\* The digits of a count of hundredths, with two fractional digits.
FixedString(h) ==
    NatToString(h \div 100) \o <<".", DigitChar((h \div 10) % 10), DigitChar(h % 10)>>

\* x.toFixed(2).
toFixed(x) == IF x.nan THEN <<"N", "a", "N">> ELSE FixedString(10 * x.v)

\* (x / n).toFixed(2) for n > 0: the nearest count of hundredths, the larger
\* one of two that are equally near.
toFixedOfQuotient(x, n) ==
    IF x.nan THEN <<"N", "a", "N">> ELSE FixedString((20 * x.v + n) \div (2 * n))

\* The average without the test of daysCount: 0 / 0 is NaN.
averageSummaryUnguarded(x, daysCount) ==
    IF daysCount = 0 THEN <<"N", "a", "N">> ELSE toFixedOfQuotient(x, daysCount)

\* A field of averageSummary.
averageSummary(x, daysCount) ==
    IF daysCount > 0 THEN toFixedOfQuotient(x, daysCount) ELSE <<"0">>

\* The order of two date strings compared as strings: that of the fields
\* they are written with.
WrittenTime(k) == getTime(k) + DateFields(k).off

\* The position Array.prototype.sort gives element i of seq under the
\* comparator key[b] - key[a]: after every element with a larger key and
\* after the earlier elements with the same key.
SortedPosition(seq, i, key) ==
    Cardinality({j \in 1..Len(seq) :
                    \/ key[seq[j]] > key[seq[i]]
                    \/ key[seq[j]] = key[seq[i]] /\ j < i}) + 1

SortDescending(seq, key) ==
    [p \in 1..Len(seq) |->
        seq[CHOOSE i \in 1..Len(seq) : SortedPosition(seq, i, key) = p]]

\* A sort on the date strings themselves.
sortByDateString(keys) ==
    SortDescending(keys, [k \in ViewDateKeys |-> WrittenTime(k)])

\* sort((a, b) => new Date(b.date).getTime() - new Date(a.date).getTime()).
sortByDate(keys) == SortDescending(keys, [k \in ViewDateKeys |-> getTime(k)])

\* The response of the summary for what was read at the current date.
SummaryResponse(value, now) ==
    LET selected == allIntakes(value.keys, now)
        daysCount == Len(selected)
        sorted == sortByDate(selected)
    IN  [dailyIntakes |->
             [i \in 1..Len(sorted) |->
                 [date |-> sorted[i],
                  foods |-> RecordAt(sorted[i]).foods,
                  summary |-> RecordAt(sorted[i]).summary]],
         total |->
             [f \in NutrientFields |-> toFixed(overallSummary(selected, f, daysCount))],
         average |->
             [f \in NutrientFields |->
                 averageSummary(overallSummary(selected, f, daysCount), daysCount)]]

\* The whole handler: JSON.parse of a stored string that is not JSON throws
\* and the catch answers 500.
GetSummary ==
    /\ viewRoute = "none"
    /\ viewRoute' = "summary"
    /\ IF viewCache.kind = "corrupt"
       THEN viewStatus' = 500 /\ viewBody' = NoBody
       ELSE viewStatus' = 200 /\ viewBody' = SummaryResponse(viewCache, currentDate)
    /\ UNCHANGED <<viewCache, currentDate, vars, extractVars, streamVars, relayVars, restVars>>

\* --------------------------------------------- GET /daily_intake/:userName

\* The date-key is on the very day of today.
matchesTodaysDate(k, today) == getTime(k) \div 1440 = getTime(today) \div 1440

\* intakeDate.getDay() === todayDayOfWeek.
matchesToday(k, today) == getDay(k) = getDay(today)

\* foods.map(food => ({...food, mealType: getMealType(...)})).
foodsWithMealType(foods, k) ==
    [i \in 1..Len(foods) |-> [foods[i] EXCEPT !.mealType = getMealType(k)]]

\* dailyIntakes after the loop and the sort.
dailyIntakes(value, today) ==
    LET sorted == sortByDate(SelectSeq(value.keys, LAMBDA k : matchesToday(k, today)))
    IN  [i \in 1..Len(sorted) |->
            [date |-> sorted[i],
             foods |-> foodsWithMealType(RecordAt(sorted[i]).foods, sorted[i]),
             summary |-> RecordAt(sorted[i]).summary]]

\* The whole handler: 500 for a stored string that is not JSON, 404 for an
\* empty list, else the list.
GetDailyIntake ==
    /\ viewRoute = "none"
    /\ viewRoute' = "daily_intake"
    /\ IF viewCache.kind = "corrupt"
       THEN viewStatus' = 500 /\ viewBody' = NoBody
       ELSE IF Len(dailyIntakes(viewCache, currentDate)) > 0
       THEN /\ viewStatus' = 200
            /\ viewBody' = [NoBody EXCEPT !.dailyIntakes = dailyIntakes(viewCache, currentDate)]
       ELSE viewStatus' = 404 /\ viewBody' = NoBody
    /\ UNCHANGED <<viewCache, currentDate, vars, extractVars, streamVars, relayVars, restVars>>

InitViews ==
    /\ CoreIdle
    /\ ExtractIdle
    /\ StreamIdle
    /\ RelayIdle
    /\ viewCache \in ViewValues
    /\ currentDate \in CurrentDates
    /\ viewRoute = "none"
    /\ viewStatus = 0
    /\ viewBody = NoBody
    /\ RestIdle

NextViews == GetSummary \/ GetDailyIntake

SpecViews == InitViews /\ [][NextViews]_viewVars

\* ------------------------------------------------ the claims on the views

\* The date-keys of the ledger that was read.
StoredKeys == {viewCache.keys[i] : i \in 1..Len(viewCache.keys)}

\* Those whose parsed date has the UTC year and month of the current date.
KeysOfMonth ==
    {k \in StoredKeys :
        /\ getUTCFullYear(k) = getUTCFullYear(currentDate)
        /\ getUTCMonth(k) = getUTCMonth(currentDate)}

\* Those whose day of the week is that of the current date.
KeysOfWeekday == {k \in StoredKeys : getDay(k) = getDay(currentDate)}

\* The date-keys of the returned records.
ReturnedDates ==
    {viewBody.dailyIntakes[i].date : i \in 1..Len(viewBody.dailyIntakes)}

\* The count of hundredths a string of digits with two fractional digits
\* stands for.
Hundredths(str) ==
    LET ie == DigitsEnd(str, 1)
    IN  100 * DigitsValue(str, 1, ie) + 10 * DigitVal(str[ie + 1]) + DigitVal(str[ie + 2])

RECURSIVE MonthTenths(_, _)
\* The sum, in tenths, of field f over all foods of the records of the month
\* among the first n stored date-keys.
MonthTenths(f, n) ==
    IF n = 0 THEN 0
    ELSE LET k == viewCache.keys[n]
         IN  MonthTenths(f, n - 1)
             + (IF k \in KeysOfMonth
                THEN FieldSum(RecordAt(k).foods, f, Len(RecordAt(k).foods)).v
                ELSE 0)

\* C14: the monthly summary for a user with no ledger, or with no date-key in
\* the current UTC year and month, answers 200 with the average of calories,
\* protein, carbs and fat each the string "0": nothing is thrown and nothing
\* is divided by the zero count of days.
C14_NoDaysAverageZero ==
    (/\ viewRoute = "summary"
     /\ \/ viewCache.kind = "absent"
        \/ viewCache.kind = "ledger" /\ KeysOfMonth = {})
        => /\ viewStatus = 200
           /\ \A f \in NutrientFields : viewBody.average[f] = <<"0">>

\* A ledger of two date-keys, neither in the current month, was summarised.
C14_Witness ==
    /\ viewRoute = "summary"
    /\ viewCache.kind = "ledger"
    /\ Len(viewCache.keys) = 2
    /\ KeysOfMonth = {}
    /\ viewStatus = 200
    /\ viewBody.average["calories"] = <<"0">>
    /\ viewBody.dailyIntakes = << >>

\* C15: the monthly summary selects exactly the date-keys whose parsed date
\* has the current UTC year and month; for each nutrient field the total is
\* the sum of the field over all foods of the selected records, and the
\* average is that total divided by the number of selected date-keys when
\* that number is positive (both written with two fractional digits).
C15_MonthSelectionTotalAverage ==
    viewRoute = "summary" /\ viewCache.kind = "ledger"
        => LET n == Cardinality(KeysOfMonth)
           IN  /\ viewStatus = 200
               /\ ReturnedDates = KeysOfMonth
               /\ Len(viewBody.dailyIntakes) = n
               /\ \A f \in NutrientFields :
                     LET tenths == MonthTenths(f, Len(viewCache.keys))
                         diff == Hundredths(viewBody.average[f]) * n - 10 * tenths
                     IN  /\ Hundredths(viewBody.total[f]) = 10 * tenths
                         /\ n > 0 => 2 * diff <= n /\ 2 * diff >= 0 - n

\* Two date-keys of the month and one of the same month a year before: the
\* two are selected, and the average is not the total.
C15_Witness ==
    /\ viewRoute = "summary"
    /\ viewStatus = 200
    /\ DateLastYear \in StoredKeys
    /\ ReturnedDates = {Date1, Date2}
    /\ viewBody.total["calories"] = <<"8", "5", "4", ".", "0", "0">>
    /\ viewBody.average["calories"] = <<"4", "2", "7", ".", "0", "0">>

\* C16: in the monthly summary and in the weekday view the returned records
\* are ordered by the parsed timestamp of their date-key, most recent first:
\* of every adjacent pair the first has a timestamp that is not smaller. The
\* comparison is of timestamps, not of the key strings.
C16_RecordsMostRecentFirst ==
    viewRoute \in {"summary", "daily_intake"}
        => \A i \in 1..(Len(viewBody.dailyIntakes) - 1) :
               getTime(viewBody.dailyIntakes[i].date)
                   >= getTime(viewBody.dailyIntakes[i + 1].date)

\* The key written with an offset is the greater string and the earlier
\* instant: it is returned after the other, though it was stored before it.
C16_Witness ==
    /\ viewRoute = "daily_intake"
    /\ viewStatus = 200
    /\ viewCache.keys = <<DateOffset, DateNight>>
    /\ WrittenTime(DateOffset) > WrittenTime(DateNight)
    /\ viewBody.dailyIntakes[1].date = DateNight
    /\ viewBody.dailyIntakes[2].date = DateOffset

\* C17: the weekday view returns exactly the records of the ledger whose
\* date-key has the day of the week of today, with their foods and summary;
\* with no ledger or no such record it answers 404, not an empty list.
C17_WeekdayViewSameDayOfWeek ==
    viewRoute = "daily_intake" /\ viewCache.kind \in {"absent", "ledger"}
        => IF KeysOfWeekday = {}
           THEN viewStatus = 404 /\ viewBody.dailyIntakes = << >>
           ELSE /\ viewStatus = 200
                /\ ReturnedDates = KeysOfWeekday
                /\ Len(viewBody.dailyIntakes) = Cardinality(KeysOfWeekday)
                /\ \A i \in 1..Len(viewBody.dailyIntakes) :
                      LET entry == viewBody.dailyIntakes[i]
                          rec == RecordAt(entry.date)
                      IN  /\ entry.summary = rec.summary
                          /\ Len(entry.foods) = Len(rec.foods)
                          /\ \A j \in 1..Len(rec.foods) :
                                SixFieldEqual(entry.foods[j], rec.foods[j])

\* Two records two weeks apart, both on a Monday like today, and one of a
\* Tuesday: the two are returned.
C17_Witness ==
    /\ viewRoute = "daily_intake"
    /\ currentDate = Monday
    /\ StoredKeys = {Date1, DateOnly, Date2}
    /\ getTime(DateOnly) - getTime(Date1) > 13 * 1440
    /\ viewStatus = 200
    /\ ReturnedDates = {Date1, DateOnly}

\* The key is written without a time of day, or with the time 00:00.
NoTimeOfDay(k) ==
    \/ ~DateFields(k).timed
    \/ DateFields(k).h = 0 /\ DateFields(k).mi = 0

\* The hour of the day of the key's instant at UTC+8.
HourAtTarget(k) == ((getTime(k) + 480) % 1440) \div 60

MealOfHour(h) ==
    IF h \in 5..10 THEN <<"Breakfast">>
    ELSE IF h \in 11..13 THEN <<"Lunch">>
    ELSE IF h \in 14..16 THEN <<"Snack">>
    ELSE IF h \in 17..20 THEN <<"Dinner">>
    ELSE <<"Late Night Snack">>

\* C18: in the weekday view every food's mealType is given by the hour of
\* the day of its record at UTC+8: 5-10 Breakfast, 11-13 Lunch, 14-16 Snack,
\* 17-20 Dinner, any other hour Late Night Snack; only a date-key without a
\* time of day yields the label "On <Weekday>".
C18_MealTypeByHour ==
    viewRoute = "daily_intake" /\ viewStatus = 200
        => \A i \in 1..Len(viewBody.dailyIntakes) :
               LET entry == viewBody.dailyIntakes[i]
               IN  \A j \in 1..Len(entry.foods) :
                       entry.foods[j].mealType =
                           IF NoTimeOfDay(entry.date)
                           THEN <<"On", WeekdayName(entry.date)>>
                           ELSE MealOfHour(HourAtTarget(entry.date))

\* ------------------------------------------------ the streamed AI response

\* The most chunks a stream delivers, and the most bytes of a chunk.
MaxChunks == 2

MaxChunkBytes == 2

\* The bytes: 7B is the brace, C3 A9 is the two-byte sequence of e with an
\* acute accent, C3 being its lead byte and A9 its continuation byte.
Bytes == {"7B", "C3", "A9"}

Chunks == UNION {[1..n -> Bytes] : n \in 1..MaxChunkBytes}

Streams == UNION {[1..n -> Chunks] : n \in 0..MaxChunks}

RECURSIVE DecodeFrom(_, _)
\* new TextDecoder().decode(bytes) from index i on: a lead byte with its
\* continuation byte is one character; a lead byte without it and a
\* continuation byte on its own each decode to U+FFFD.
DecodeFrom(bytes, i) ==
    IF i > Len(bytes) THEN << >>
    ELSE IF bytes[i] = "7B" THEN <<"{">> \o DecodeFrom(bytes, i + 1)
    ELSE IF bytes[i] = "C3" /\ i < Len(bytes) /\ bytes[i + 1] = "A9"
    THEN <<"e-acute">> \o DecodeFrom(bytes, i + 2)
    ELSE <<"U+FFFD">> \o DecodeFrom(bytes, i + 1)

decode(bytes) == DecodeFrom(bytes, 1)

\* reader.read() returns a chunk: responseText += new TextDecoder().decode(value).
ReadChunk ==
    /\ ~readerDone
    /\ readerPos < Len(readerChunks)
    /\ readerPos' = readerPos + 1
    /\ streamText' = streamText \o decode(readerChunks[readerPos + 1])
    /\ UNCHANGED <<readerChunks, readerDone, vars, extractVars, viewVars, relayVars, restVars>>

\* reader.read() returns done: the loop ends and the parsing begins.
ReadDone ==
    /\ ~readerDone
    /\ readerPos = Len(readerChunks)
    /\ readerDone' = TRUE
    /\ UNCHANGED <<readerChunks, readerPos, streamText, vars, extractVars, viewVars, relayVars, restVars>>

InitStream ==
    /\ CoreIdle
    /\ ExtractIdle
    /\ ViewIdle
    /\ RelayIdle
    /\ readerChunks \in Streams
    /\ readerPos = 0
    /\ streamText = << >>
    /\ readerDone = FALSE
    /\ RestIdle

NextStream == ReadChunk \/ ReadDone

SpecStream == InitStream /\ [][NextStream]_streamVars

RECURSIVE Concatenated(_, _)
\* The bytes of the first n chunks, one after the other.
Concatenated(chunks, n) ==
    IF n = 0 THEN << >> ELSE Concatenated(chunks, n - 1) \o chunks[n]

\* C19: for a streamed completion the text handed to the extraction, once
\* the stream has reported done, is the decoding of the complete sequence of
\* chunks concatenated, not the concatenation of the chunks decoded one at a
\* time.
C19_TextIsDecodingOfWholeStream ==
    readerDone =>
        streamText = decode(Concatenated(readerChunks, Len(readerChunks)))

\* ------------------------------------------------------ the WebSocket relay

notRelay == <<vars, extractVars, viewVars, streamVars, restVars>>

\* The upgrade up to its await: server.accept(), sessions.set(clientId,
\* server), and cache.put of the presence key is started.
Accept(c) ==
    /\ connPc[c] = "none"
    /\ connPc' = [connPc EXCEPT ![c] = "putting"]
    /\ sessions' = sessions \cup {c}
    /\ UNCHANGED <<presence, inbox, postPc, postType, postTarget, postKeys, postStatus>>
    /\ UNCHANGED notRelay

\* The store applies the awaited put: the presence key is there for every
\* reader of the store, before the upgrade is resumed. The socket may have
\* been closed meanwhile.
PresencePut(c) ==
    /\ connPc[c] \in {"putting", "putting, socket closed"}
    /\ connPc' = [connPc EXCEPT ![c] = IF connPc[c] = "putting"
                                       THEN "stored" ELSE "stored, socket closed"]
    /\ presence' = presence \cup {c}
    /\ UNCHANGED <<sessions, inbox, postPc, postType, postTarget, postKeys, postStatus>>
    /\ UNCHANGED notRelay

\* The upgrade resumes after the put: the "connection" message with the
\* clientId is sent and the listeners for message and close are added.
Connected(c) ==
    /\ connPc[c] = "stored"
    /\ connPc' = [connPc EXCEPT ![c] = "open"]
    /\ inbox' = [inbox EXCEPT ![c] = Append(inbox[c], "connection")]
    /\ UNCHANGED <<sessions, presence, postPc, postType, postTarget, postKeys, postStatus>>
    /\ UNCHANGED notRelay

\* The connection closes while the upgrade awaits the put: no close listener
\* is added yet, so the event runs no code of the handler.
CloseUnheard(c) ==
    /\ connPc[c] \in {"putting", "stored"}
    /\ connPc' = [connPc EXCEPT ![c] = IF connPc[c] = "putting"
                                       THEN "putting, socket closed"
                                       ELSE "stored, socket closed"]
    /\ UNCHANGED <<sessions, presence, inbox, postPc, postType, postTarget, postKeys,
                   postStatus>>
    /\ UNCHANGED notRelay

\* The upgrade resumes after the put on a socket that is closed already:
\* server.send delivers nothing, and the close listener, if it is still
\* added, is added after the only close event.
ConnectedUnheard(c) ==
    /\ connPc[c] = "stored, socket closed"
    /\ connPc' = [connPc EXCEPT ![c] = "orphaned"]
    /\ UNCHANGED <<sessions, presence, inbox, postPc, postType, postTarget, postKeys,
                   postStatus>>
    /\ UNCHANGED notRelay

\* The close listener up to its await: sessions.delete(clientId), and
\* cache.delete of the presence key is started.
CloseEvent(c) ==
    /\ connPc[c] = "open"
    /\ connPc' = [connPc EXCEPT ![c] = "closing"]
    /\ sessions' = sessions \ {c}
    /\ UNCHANGED <<presence, inbox, postPc, postType, postTarget, postKeys, postStatus>>
    /\ UNCHANGED notRelay

\* The delete of the close listener has completed.
CloseDeleted(c) ==
    /\ connPc[c] = "closing"
    /\ connPc' = [connPc EXCEPT ![c] = "closed"]
    /\ presence' = presence \ {c}
    /\ UNCHANGED <<sessions, inbox, postPc, postType, postTarget, postKeys, postStatus>>
    /\ UNCHANGED notRelay

\* POST /resetkv/ws:<clientId>: the route deletes any key of the namespace
\* the relay shares, the presence key included.
ResetPresence(c) ==
    /\ c \in presence
    /\ presence' = presence \ {c}
    /\ UNCHANGED <<sessions, connPc, inbox, postPc, postType, postTarget, postKeys, postStatus>>
    /\ UNCHANGED notRelay

\* A POST of type "direct" for a clientId that a "connection" message has
\* made known: sendToClient awaits cache.get of the presence key, and goes on
\* with what the store held when the get was served.
DirectLookup(p, c) ==
    /\ postPc[p] = "idle"
    /\ connPc[c] \in {"open", "closing", "closed"}
    /\ postPc' = [postPc EXCEPT ![p] = "lookup"]
    /\ postType' = [postType EXCEPT ![p] = "direct"]
    /\ postTarget' = [postTarget EXCEPT ![p] = c]
    /\ postKeys' = [postKeys EXCEPT ![p] = presence \cap {c}]
    /\ UNCHANGED <<sessions, presence, connPc, inbox, postStatus>>
    /\ UNCHANGED notRelay

\* sendToClient after the get: false without the presence key, else whether
\* sessions holds a socket, to which the message is then sent.
sendToClient(clientExists, clientId) == clientExists /\ clientId \in sessions

\* The rest of the direct POST: 200 "Message sent" or 404 "Client not found".
DirectFinish(p) ==
    LET c == postTarget[p]
        success == sendToClient(c \in postKeys[p], c)
    IN  /\ postPc[p] = "lookup"
        /\ postPc' = [postPc EXCEPT ![p] = "done"]
        /\ inbox' = IF success
                    THEN [inbox EXCEPT ![c] = Append(inbox[c], "direct")]
                    ELSE inbox
        /\ postStatus' = [postStatus EXCEPT ![p] = IF success THEN 200 ELSE 404]
        /\ postKeys' = [postKeys EXCEPT ![p] = {}]
        /\ UNCHANGED <<sessions, presence, connPc, postType, postTarget>>
        /\ UNCHANGED notRelay

\* A POST of type "broadcast": cache.list of the prefix ws: is awaited.
BroadcastList(p) ==
    /\ postPc[p] = "idle"
    /\ postPc' = [postPc EXCEPT ![p] = "listed"]
    /\ postType' = [postType EXCEPT ![p] = "broadcast"]
    /\ postKeys' = [postKeys EXCEPT ![p] = presence]
    /\ UNCHANGED <<sessions, presence, connPc, inbox, postTarget, postStatus>>
    /\ UNCHANGED notRelay

\* The payload is sent on the socket of every listed key that sessions
\* holds, and the POST answers 200.
BroadcastSend(p) ==
    /\ postPc[p] = "listed"
    /\ postPc' = [postPc EXCEPT ![p] = "done"]
    /\ inbox' = [c \in Clients |->
                    IF c \in postKeys[p] /\ c \in sessions
                    THEN Append(inbox[c], "broadcast") ELSE inbox[c]]
    /\ postStatus' = [postStatus EXCEPT ![p] = 200]
    /\ postKeys' = [postKeys EXCEPT ![p] = {}]
    /\ UNCHANGED <<sessions, presence, connPc, postType, postTarget>>
    /\ UNCHANGED notRelay

InitRelay ==
    /\ CoreIdle
    /\ ExtractIdle
    /\ ViewIdle
    /\ StreamIdle
    /\ RelayIdle
    /\ RestIdle

NextRelay ==
    \/ \E c \in Clients : Accept(c)
    \/ \E c \in Clients : PresencePut(c)
    \/ \E c \in Clients : Connected(c)
    \/ \E c \in Clients : CloseUnheard(c)
    \/ \E c \in Clients : ConnectedUnheard(c)
    \/ \E c \in Clients : CloseEvent(c)
    \/ \E c \in Clients : CloseDeleted(c)
    \/ \E c \in Clients : ResetPresence(c)
    \/ \E p \in Posts, c \in Clients : DirectLookup(p, c)
    \/ \E p \in Posts : DirectFinish(p)
    \/ \E p \in Posts : BroadcastList(p)
    \/ \E p \in Posts : BroadcastSend(p)

SpecRelay == InitRelay /\ [][NextRelay]_relayVars

\* Every awaited call on the store settles and the code after it runs: the
\* put of the upgrade, the delete of the close listener, the get and the
\* list of a POST. Connections, closes and requests come when they come.
RelayFairness ==
    /\ \A c \in Clients :
          /\ WF_relayVars(PresencePut(c))
          /\ WF_relayVars(Connected(c))
          /\ WF_relayVars(ConnectedUnheard(c))
          /\ WF_relayVars(CloseDeleted(c))
    /\ \A p \in Posts :
          /\ WF_relayVars(DirectFinish(p))
          /\ WF_relayVars(BroadcastSend(p))

SpecRelayFair == SpecRelay /\ RelayFairness

\* A direct POST is answered.
DirectStep(p) == postPc[p] = "lookup" /\ postPc'[p] = "done"

\* C20: the connection table in memory is the source of truth and the
\* presence key of the store is advisory: whenever the table holds a live
\* socket for the clientId of a direct message, the message is delivered and
\* reported as sent (200), whether or not the store holds ws:<clientId>.
C20_TableDecidesDelivery ==
    [][\A p \in Posts :
          DirectStep(p) /\ postTarget[p] \in sessions
              => /\ postStatus'[p] = 200
                 /\ inbox'[postTarget[p]] = Append(inbox[postTarget[p]], "direct")
      ]_relayVars

\* The connection of client c has closed.
HasClosed(c) ==
    connPc[c] \in {"putting, socket closed", "stored, socket closed", "orphaned",
                   "closing", "closed"}

\* C23: once the connection of a client closes, the relay eventually holds
\* neither a session for its clientId nor its presence key in the store,
\* also when the close comes while the upgrade still awaits the put.
C23_ClosedClientForgotten ==
    \A c \in Clients :
        HasClosed(c) ~> (c \notin sessions /\ c \notin presence)

\* C24: the first message sent on a client's socket is the "connection"
\* message: no broadcast and no direct message is sent on it before.
C24_ConnectionMessageFirst ==
    \A c \in Clients : inbox[c] # << >> => inbox[c][1] = "connection"

\* C22: an intake request that ends in failure leaves the store as it was:
\* a finished intake request that did not answer 200 has made no put.
C22_FailedIntakeLeavesStore ==
    \A r \in Requests :
        (route[r] = "intake" /\ pc[r] = "done" /\ status[r] # 200)
            => kvOp[r] = "none"

\* ------------------------------------------ numbers as binary64 (doubles)

\* The JavaScript numbers of the nutrient fields are zero or lie between 0.1
\* and 2^20. Every double of that range is a whole number of units of 2^-60,
\* so a double is written as that whole number: a natural below 2^80 in five
\* limbs of 16 bits, least significant first, with at most 53 significant
\* bits. Two doubles are equal exactly when their limbs are, and
\* Number.prototype.toString gives equal strings only for equal doubles.
Limb == 2^16

DoubleZero == <<0, 0, 0, 0, 0>>

BigOne == <<1, 0, 0, 0, 0>>

\* The sum of two naturals (below 2^80), limb by limb with the carries.
BigAdd(a, b) ==
    LET s1 == a[1] + b[1]
        s2 == a[2] + b[2] + (s1 \div Limb)
        s3 == a[3] + b[3] + (s2 \div Limb)
        s4 == a[4] + b[4] + (s3 \div Limb)
        s5 == a[5] + b[5] + (s4 \div Limb)
    IN  <<s1 % Limb, s2 % Limb, s3 % Limb, s4 % Limb, s5 % Limb>>

\* The powers of two up to a limb: Pow2[r + 1] = 2^r.
Pow2 == [i \in 1..17 |-> 2^(i - 1)]

\* Limb i of a natural, 0 outside its five limbs.
LimbAt(a, i) == IF i \in 1..5 THEN a[i] ELSE 0

\* The natural shifted right by k bits.
ShiftRight(a, k) ==
    LET j == k \div 16
        p == Pow2[(k % 16) + 1]
        c == Pow2[17 - (k % 16)]
    IN  <<(LimbAt(a, 1 + j) \div p) + (LimbAt(a, 2 + j) % p) * c,
          (LimbAt(a, 2 + j) \div p) + (LimbAt(a, 3 + j) % p) * c,
          (LimbAt(a, 3 + j) \div p) + (LimbAt(a, 4 + j) % p) * c,
          (LimbAt(a, 4 + j) \div p) + (LimbAt(a, 5 + j) % p) * c,
          (LimbAt(a, 5 + j) \div p) + (LimbAt(a, 6 + j) % p) * c>>

\* The natural shifted left by k bits (the result below 2^80).
ShiftLeft(a, k) ==
    LET j == k \div 16
        p == Pow2[(k % 16) + 1]
        c == Pow2[17 - (k % 16)]
    IN  <<((LimbAt(a, 1 - j) * p) % Limb) + (LimbAt(a, 0 - j) \div c),
          ((LimbAt(a, 2 - j) * p) % Limb) + (LimbAt(a, 1 - j) \div c),
          ((LimbAt(a, 3 - j) * p) % Limb) + (LimbAt(a, 2 - j) \div c),
          ((LimbAt(a, 4 - j) * p) % Limb) + (LimbAt(a, 3 - j) \div c),
          ((LimbAt(a, 5 - j) * p) % Limb) + (LimbAt(a, 4 - j) \div c)>>

RECURSIVE SmallBitLength(_)
\* The number of significant bits of a limb.
SmallBitLength(n) == IF n = 0 THEN 0 ELSE 1 + SmallBitLength(n \div 2)

RECURSIVE BitLengthFrom(_, _)
BitLengthFrom(a, i) ==
    IF i = 0 THEN 0
    ELSE IF a[i] # 0 THEN 16 * (i - 1) + SmallBitLength(a[i])
    ELSE BitLengthFrom(a, i - 1)

\* The number of significant bits of a natural.
BitLength(a) == BitLengthFrom(a, 5)

\* The double nearest to the natural n plus, when sticky, a positive amount
\* below one unit: round to 53 significant bits, to nearest, ties to even.
RoundToDouble(n, sticky) ==
    LET drop == BitLength(n) - 53
        h == ShiftRight(n, drop - 1)
        lost == sticky \/ ShiftLeft(h, drop - 1) # n
        q == ShiftRight(n, drop)
        up == h[1] % 2 = 1 /\ (lost \/ q[1] % 2 = 1)
    IN  IF drop <= 0 THEN n
        ELSE ShiftLeft(IF up THEN BigAdd(q, BigOne) ELSE q, drop)

\* x + y of two doubles.
DoubleAdd(x, y) == RoundToDouble(BigAdd(x, y), FALSE)

\* The natural divided by ten: the quotient q rounded down and the
\* remainder r, by long division from the most significant limb.
BigDivTen(a) ==
    LET r5 == a[5] % 10
        d4 == r5 * Limb + a[4]
        d3 == (d4 % 10) * Limb + a[3]
        d2 == (d3 % 10) * Limb + a[2]
        d1 == (d2 % 10) * Limb + a[1]
    IN  [q |-> <<d1 \div 10, d2 \div 10, d3 \div 10, d4 \div 10, a[5] \div 10>>,
         r |-> d1 % 10]

\* The double a decimal string with the value tenths / 10 parses to, the
\* double nearest to it: tenths * 2^60 / 10 rounded to 53 bits.
DoubleOfTenths(tenths) ==
    LET scaled == <<0, 0, 0, (tenths * 4096) % Limb, (tenths * 4096) \div Limb>>
        d == BigDivTen(scaled)
    IN  RoundToDouble(d.q, d.r # 0)

\* ------------------------------------------ the summary in doubles

MaxFoods == 3

\* Three light foods, with nutrients below one gram.
Cucumber ==
    [name |-> "cucumber", amount |-> "3 slices", calories |-> <<"2">>,
     protein |-> <<"0", ".", "1">>, carbs |-> <<"0", ".", "4">>,
     fat |-> <<"0">>, mealType |-> NoMealType]

Tea ==
    [name |-> "teh o kosong", amount |-> "1 cup", calories |-> <<"1">>,
     protein |-> <<"0", ".", "2">>, carbs |-> <<"0", ".", "3">>,
     fat |-> <<"0">>, mealType |-> NoMealType]

Cracker ==
    [name |-> "cream cracker", amount |-> "1 piece", calories |-> <<"9">>,
     protein |-> <<"0", ".", "3">>, carbs |-> <<"1", ".", "5">>,
     fat |-> <<"0", ".", "2">>, mealType |-> NoMealType]

\* The valid FoodItems of the recomputation.
SummaryFoods == {Rice, Egg, Latte, Cucumber, Tea, Cracker}

\* The foods arrays of at most MaxFoods items.
SummaryFoodLists ==
    UNION {[1..n -> SummaryFoods] : n \in 0..MaxFoods}

\* The orders of a foods array.
Reorderings(foods) ==
    {[i \in 1..Len(foods) |-> foods[pi[i]]] :
        pi \in {f \in [1..Len(foods) -> 1..Len(foods)] :
                  \A i, j \in 1..Len(foods) : f[i] = f[j] => i = j}}

\* parseFloat of a numeric string as a double: the double nearest to the
\* decimal value read from the characters.
ParseDouble(s) == DoubleOfTenths(ParseFloat(s).v)

\* One step of the reduce: (parseFloat(acc.f) + parseFloat(food.f)).toString()
\* per field. acc holds the doubles whose strings the accumulator holds:
\* parseFloat gives back the double toString was applied to.
SummaryStepDouble(acc, food) ==
    [f \in NutrientFields |-> DoubleAdd(acc[f], ParseDouble(food[f]))]

\* The zeros the reduce starts from.
ZeroSummaryDouble == [f \in NutrientFields |-> DoubleZero]

RECURSIVE SummaryReduceDouble(_, _)
SummaryReduceDouble(foods, n) ==
    IF n = 0 THEN ZeroSummaryDouble
    ELSE SummaryStepDouble(SummaryReduceDouble(foods, n - 1), foods[n])

\* recalculatedSummary of a foods array, field by field the double whose
\* string the summary holds.
recalculatedSummaryDouble(foods) == SummaryReduceDouble(foods, Len(foods))

\* The recomputation of a request whose day holds summaryFoods.
RecomputeSummary ==
    /\ summaryOfFoods = NotRecomputed
    /\ summaryOfFoods' = recalculatedSummaryDouble(summaryFoods)
    /\ UNCHANGED <<summaryFoods, permutedFoods, summaryOfPermuted>>
    /\ UNCHANGED <<vars, extractVars, viewVars, streamVars, relayVars, boardVars>>

\* The recomputation of a request whose day holds the foods in another order.
RecomputePermuted ==
    /\ summaryOfPermuted = NotRecomputed
    /\ summaryOfPermuted' = recalculatedSummaryDouble(permutedFoods)
    /\ UNCHANGED <<summaryFoods, permutedFoods, summaryOfFoods>>
    /\ UNCHANGED <<vars, extractVars, viewVars, streamVars, relayVars, boardVars>>

InitSummary ==
    /\ CoreIdle
    /\ ExtractIdle
    /\ ViewIdle
    /\ StreamIdle
    /\ RelayIdle
    /\ BoardIdle
    /\ summaryFoods \in SummaryFoodLists
    /\ permutedFoods \in Reorderings(summaryFoods)
    /\ summaryOfFoods = NotRecomputed
    /\ summaryOfPermuted = NotRecomputed

NextSummary ==
    \/ RecomputeSummary
    \/ RecomputePermuted

SpecSummary == InitSummary /\ [][NextSummary]_summaryVars

RECURSIVE TenthsSum(_, _, _)
\* The sum of field f over the first n foods, in tenths, as written.
TenthsSum(foods, f, n) ==
    IF n = 0 THEN 0 ELSE TenthsSum(foods, f, n - 1) + ParseFloat(foods[n][f]).v

\* C21: the daily summary is order-independent: the summary recomputed over a
\* permutation of the foods equals the summary recomputed over the foods in
\* all four fields, and each field is the sum of that field over the foods.
C21_SummaryOrderIndependent ==
    (summaryOfFoods # NotRecomputed /\ summaryOfPermuted # NotRecomputed) =>
        /\ summaryOfPermuted = summaryOfFoods
        /\ \A f \in NutrientFields :
              summaryOfFoods[f] =
                  DoubleOfTenths(TenthsSum(summaryFoods, f, Len(summaryFoods)))

\* The first half of C21 alone: the two orders give one summary.
C21_PermutationSameSummary ==
    (summaryOfFoods # NotRecomputed /\ summaryOfPermuted # NotRecomputed) =>
        summaryOfPermuted = summaryOfFoods

\* ------------------------------------------------------- GET /leaderboard

\* One [date, intakeData] pair of Object.entries(parsedValue).
Entry(k, foods) == [date |-> k, foods |-> foods]

\* What the store holds under a key: a string that is not JSON, the presence
\* record of a WebSocket client, or a ledger as the pairs of its entries.
BoardCorrupt == [kind |-> "corrupt", entries |-> << >>]

BoardPresence == [kind |-> "presence", entries |-> << >>]

BoardLedger(entries) == [kind |-> "ledger", entries |-> entries]

\* The ledgers of the users: an egg on the Monday; rice on the Monday and a
\* latte under the key written with an offset; rice in April and a latte and
\* an egg on the Tuesday; rice on the Tuesday, an egg a year before and a
\* latte on the Monday.
BoardUserValues ==
    {BoardCorrupt,
     BoardLedger(<<Entry(BoardMorning, <<Egg>>)>>),
     BoardLedger(<<Entry(BoardMorning, <<Rice>>), Entry(BoardOffset, <<Latte>>)>>),
     BoardLedger(<<Entry(BoardApril, <<Rice>>), Entry(BoardTuesday, <<Latte, Egg>>)>>),
     BoardLedger(<<Entry(BoardTuesday, <<Rice>>), Entry(BoardLastYear, <<Egg>>),
                   Entry(BoardMorning, <<Latte>>)>>)}

\* The stores: a value for every user, and the presence record under the
\* key of the WebSocket client.
BoardCaches ==
    {c \in [1..Len(BoardKeys) -> BoardUserValues \cup {BoardPresence}] :
        \A i \in 1..Len(BoardKeys) :
            c[i] = BoardPresence <=> BoardKeys[i][1] = "w"}

\* maskUsername: stars for a name of at most four characters, else the name
\* without its last four characters and four stars.
maskUsername(username) ==
    IF Len(username) <= 4 THEN [i \in 1..Len(username) |-> "*"]
    ELSE SubSeq(username, 1, Len(username) - 4) \o <<"*", "*", "*", "*">>

\* The three UTC fields of the entry's date and of today are equal.
SameUTCDay(k, today) ==
    /\ getUTCFullYear(k) = getUTCFullYear(today)
    /\ getUTCMonth(k) = getUTCMonth(today)
    /\ getUTCDate(k) = getUTCDate(today)

RECURSIVE entryCalories(_, _)
\* foods.reduce((sum, food) => sum + parseFloat(food.calories), 0) over the
\* first n foods. The calories in use are whole numbers, on which the sum in
\* tenths is the sum of the doubles.
entryCalories(foods, n) ==
    IF n = 0 THEN Num(0)
    ELSE FAdd(entryCalories(foods, n - 1), ParseFloat(foods[n].calories))

RECURSIVE totalCalories(_, _, _)
\* totalCalories after the first n entries of the ledger.
totalCalories(entries, today, n) ==
    IF n = 0 THEN Num(0)
    ELSE IF SameUTCDay(entries[n].date, today)
    THEN FAdd(totalCalories(entries, today, n - 1),
              entryCalories(entries[n].foods, Len(entries[n].foods)))
    ELSE totalCalories(entries, today, n - 1)

\* totalCalories of a stored value: the entries of a presence record have no
\* valid date and add nothing.
TotalOf(value, today) == totalCalories(value.entries, today, Len(value.entries))

\* totalCalories > 0.
Positive(x) == ~x.nan /\ x.v > 0

RECURSIVE userCalories(_, _, _)
\* userCalories after the first n keys of the list.
userCalories(store, today, n) ==
    IF n = 0 THEN << >>
    ELSE IF Positive(TotalOf(store[n], today))
    THEN Append(userCalories(store, today, n - 1),
                [username |-> maskUsername(BoardKeys[n]),
                 calories |-> TotalOf(store[n], today).v])
    ELSE userCalories(store, today, n - 1)

\* The position of element i after a stable sort by ascending calories.
AscendingPosition(seq, i) ==
    Cardinality({j \in 1..Len(seq) :
                    \/ seq[j].calories < seq[i].calories
                    \/ seq[j].calories = seq[i].calories /\ j < i}) + 1

\* A sort by ascending calories.
sortByCaloriesAscending(seq) ==
    [p \in 1..Len(seq) |->
        seq[CHOOSE i \in 1..Len(seq) : AscendingPosition(seq, i) = p]]

\* The position of element i after sort((a, b) => b.calories - a.calories),
\* a stable sort.
CaloriesPosition(seq, i) ==
    Cardinality({j \in 1..Len(seq) :
                    \/ seq[j].calories > seq[i].calories
                    \/ seq[j].calories = seq[i].calories /\ j < i}) + 1

sortByCalories(seq) ==
    [p \in 1..Len(seq) |->
        seq[CHOOSE i \in 1..Len(seq) : CaloriesPosition(seq, i) = p]]

\* slice(0, 5).
TopCount == 5

slice(seq) == SubSeq(seq, 1, IF Len(seq) < TopCount THEN Len(seq) ELSE TopCount)

\* x.toFixed(1) of a count of tenths.
toFixedOne(tenths) ==
    NatToString(tenths \div 10) \o <<".", DigitChar(tenths % 10)>>

\* The leaderboard of the response.
leaderboard(store, today) ==
    LET top == slice(sortByCalories(userCalories(store, today, Len(BoardKeys))))
    IN  [index \in 1..Len(top) |->
            [rank |-> index,
             username |-> top[index].username,
             calories |-> toFixedOne(top[index].calories)]]

\* The whole handler on the store as it is read: JSON.parse of a value that
\* is not JSON throws and the catch answers 500.
GetLeaderboard ==
    /\ boardStatus = 0
    /\ IF \E i \in 1..Len(BoardKeys) : boardCache[i].kind = "corrupt"
       THEN boardStatus' = 500 /\ boardBody' = << >>
       ELSE boardStatus' = 200 /\ boardBody' = leaderboard(boardCache, boardDate)
    /\ UNCHANGED <<boardCache, boardDate>>
    /\ UNCHANGED <<vars, extractVars, viewVars, streamVars, relayVars, summaryVars>>

InitBoard ==
    /\ CoreIdle
    /\ ExtractIdle
    /\ ViewIdle
    /\ StreamIdle
    /\ RelayIdle
    /\ SummaryIdle
    /\ boardCache \in BoardCaches
    /\ boardDate \in {Monday, Tuesday}
    /\ boardStatus = 0
    /\ boardBody = << >>

NextBoard == GetLeaderboard

SpecBoard == InitBoard /\ [][NextBoard]_boardVars

\* The users: the keys that hold no presence record.
BoardUsers == {i \in 1..Len(BoardKeys) : boardCache[i].kind # "presence"}

\* The entry is dated today: its instant lies in the UTC day of today.
DatedToday(k) == getTime(k) \div 1440 = getTime(boardDate) \div 1440

RECURSIVE CaloriesToday(_, _)
\* The food calories of the user at key i over the records dated today, in
\* tenths: the sum over the first n entries.
CaloriesToday(i, n) ==
    IF n = 0 THEN 0
    ELSE CaloriesToday(i, n - 1)
         + (IF DatedToday(boardCache[i].entries[n].date)
            THEN FieldSum(boardCache[i].entries[n].foods, "calories",
                          Len(boardCache[i].entries[n].foods)).v
            ELSE 0)

TodayOf(i) == CaloriesToday(i, Len(boardCache[i].entries))

\* The user an entry of the leaderboard is listed for. The masked names of
\* the keys are distinct.
ListedUser(e) == CHOOSE i \in 1..Len(BoardKeys) : maskUsername(BoardKeys[i]) = e.username

\* C25: the leaderboard lists at most 5 entries, only for users whose summed
\* food calories over the records dated today (UTC) are greater than zero,
\* in non-increasing order of those calories, with rank the position 1..n;
\* no user with strictly more calories today than a listed user is left out.
C25_LeaderboardTopFive ==
    boardStatus = 200 =>
        LET n == Len(boardBody)
            listed == {ListedUser(boardBody[p]) : p \in 1..n}
        IN  /\ n <= 5
            /\ \A p \in 1..n :
                  /\ ListedUser(boardBody[p]) \in BoardUsers
                  /\ TodayOf(ListedUser(boardBody[p])) > 0
                  /\ boardBody[p].calories = toFixedOne(TodayOf(ListedUser(boardBody[p])))
                  /\ boardBody[p].rank = p
            /\ \A p, q \in 1..n :
                  p < q => /\ TodayOf(ListedUser(boardBody[p])) >= TodayOf(ListedUser(boardBody[q]))
                           /\ ListedUser(boardBody[p]) # ListedUser(boardBody[q])
            /\ \A i \in BoardUsers \ listed :
                  \A j \in listed : ~(TodayOf(i) > TodayOf(j))

\* A leaderboard of five entries with different calories, given when a
\* sixth user has calories today.
C25_Witness ==
    /\ boardStatus = 200
    /\ Len(boardBody) = 5
    /\ boardBody[1].calories # boardBody[5].calories
    /\ \E i \in BoardUsers :
          /\ TodayOf(i) > 0
          /\ \A p \in 1..5 : ListedUser(boardBody[p]) # i

====
